---- MODULE Spec2Model ----
(***************************************************************************)
(* Dual-token authentication of the Express API: the middleware            *)
(* authenticateToken / authenticateFirebaseUser, the routes POST           *)
(* /auth/login and POST /auth/token, and the User collection they share.   *)
(*                                                                         *)
(* A request is a slot of req.  An async handler runs from one await to    *)
(* the next in one step, so the steps of different requests interleave at  *)
(* the awaits, as they do on the Node event loop.                          *)
(*                                                                         *)
(* Strings are modelled by their parts: an Authorization header is a       *)
(* sequence of atoms, one atom being the literal "Bearer " and the others  *)
(* strings that do not contain it; an error message is a sequence of       *)
(* words.                                                                  *)
(***************************************************************************)
EXTENDS Integers, Sequences, FiniteSets, TLC

VARIABLES users, req, now, users0, resets, proc

vars == <<users, req, now, users0, resets, proc>>

(***************************************************************************)
(* Bounds                                                                  *)
(***************************************************************************)
\* the longest Authorization header, in atoms
MaxHeaderLen == 2
\* the last instant of the clock read by new Date()
MaxTime == 2

\* how many times a slot is taken again by a later request
MaxResets == 1

\* how many termination signals the process is sent
MaxSignals == 2

\* request slots: requests in flight at the same time
Slots == {1, 2}

(***************************************************************************)
(* Credentials.  Each raw token is a name; what the two verifiers make of  *)
(* it is fixed by the tables JwtPayload and IdpAnswer.                     *)
(***************************************************************************)
Prefix == "Bearer "

\* tokens the identity provider accepts
IdTokens == {"idA1", "idA2", "idB1", "idB2", "idN1", "idN2"}
\* tokens the identity provider rejects, and no local token either
BadTokens == {"idExp", "idInv", "idOld", "junk"}
\* tokens signed with JWT_SECRET and unexpired
SignedTokens == {"atU1", "rtU1"}

Tokens == IdTokens \cup BadTokens \cup SignedTokens

NoDecoded == [ok |-> FALSE, type |-> "", uid |-> "", email |-> "", role |-> ""]

JwtPayload(name) ==
    CASE name = "atU1" ->
           [ok |-> TRUE, type |-> "access_token", uid |-> "u1",
            email |-> "a@x", role |-> "user"]
      [] name = "rtU1" ->
           [ok |-> TRUE, type |-> "refresh_token", uid |-> "u1",
            email |-> "a@x", role |-> "user"]
      [] OTHER -> NoDecoded

\* enum UserRole
Roles == {"user", "admin"}

\* process.env.JWT_SECRET || 'fallback-secret-key-change-in-production', read
\* by the route that signs and by the middleware that verifies
JwtSecret == "fallback-secret-key-change-in-production"

\* expiresIn: 24 hours, one instant of the clock
ExpiresIn == 1

\* the compact form of a signed token: the payload, the exp claim, and the
\* HS256 signature, which is a function of both and of the secret
JwtEncode(payload, secret, exp) ==
    "jwt." \o payload.type \o "." \o payload.uid \o "." \o payload.email
      \o "." \o payload.role \o "." \o ToString(exp) \o "." \o secret

\* jwt.sign(payload, secret, {expiresIn, algorithm: 'HS256'}): exp is the
\* instant of signing plus expiresIn
JwtSign(payload, secret) == JwtEncode(payload, secret, now + ExpiresIn)

\* the payloads and exp claims a token at hand may decode to
JwtDecodings ==
    {[payload |-> [ok |-> TRUE, type |-> "access_token", uid |-> u,
                   email |-> e, role |-> ro],
      exp |-> x] :
        u \in {"u1", "u2"}, e \in {"", "a@x", "b@x", "B@x"}, ro \in Roles,
        x \in 0..(MaxTime + ExpiresIn)}

\* a mutant of JwtVerify: the signature is checked against another secret
JwtVerifyOtherSecret(tok) ==
    IF Len(tok) = 1 /\ tok[1] \in SignedTokens
    THEN JwtPayload(tok[1])
    ELSE IF Len(tok) = 1
            /\ \E d \in JwtDecodings :
                  /\ JwtEncode(d.payload, "other-secret", d.exp) = tok[1]
                  /\ now < d.exp
    THEN (CHOOSE d \in JwtDecodings :
            JwtEncode(d.payload, "other-secret", d.exp) = tok[1]).payload
    ELSE NoDecoded

\* jwt.verify(token, JWT_SECRET): the payload, or ok = FALSE when it throws:
\* the signature is not that of the token under JWT_SECRET, or the exp claim
\* is not in the future
JwtVerify(tok) ==
    IF Len(tok) = 1 /\ tok[1] \in SignedTokens
    THEN JwtPayload(tok[1])
    ELSE IF Len(tok) = 1
            /\ \E d \in JwtDecodings :
                  /\ JwtEncode(d.payload, JwtSecret, d.exp) = tok[1]
                  /\ now < d.exp
    THEN (CHOOSE d \in JwtDecodings :
            JwtEncode(d.payload, JwtSecret, d.exp) = tok[1]).payload
    ELSE NoDecoded

NoClaims == [ok |-> FALSE, uid |-> "", email |-> "", name |-> "",
             picture |-> "", msg |-> <<>>]

IdpAnswer(name) ==
    CASE name = "idA1" ->
           [ok |-> TRUE, uid |-> "u1", email |-> "a@x", name |-> "N1",
            picture |-> "P1", msg |-> <<>>]
      [] name = "idA2" ->
           [ok |-> TRUE, uid |-> "u2", email |-> "a@x", name |-> "",
            picture |-> "", msg |-> <<>>]
      [] name = "idB1" ->
           [ok |-> TRUE, uid |-> "u1", email |-> "b@x", name |-> "",
            picture |-> "", msg |-> <<>>]
      [] name = "idB2" ->
           [ok |-> TRUE, uid |-> "u2", email |-> "B@x", name |-> " N2 ",
            picture |-> "", msg |-> <<>>]
      [] name = "idN1" ->
           [ok |-> TRUE, uid |-> "u1", email |-> "", name |-> "",
            picture |-> "", msg |-> <<>>]
      [] name = "idN2" ->
           [ok |-> TRUE, uid |-> "u2", email |-> "", name |-> "",
            picture |-> "P2", msg |-> <<>>]
      [] name = "idExp" ->
           [NoClaims EXCEPT !.msg = <<"Firebase", "ID", "token", "has", "expired">>]
      [] name = "idInv" ->
           [NoClaims EXCEPT !.msg = <<"Invalid", "signature">>]
      [] name = "idOld" ->
           [NoClaims EXCEPT !.msg = <<"Invalid", "token", "expired">>]
      [] OTHER ->
           [NoClaims EXCEPT !.msg = <<"Decoding", "failed">>]

\* auth.verifyIdToken(token): the decoded claims, or ok = FALSE and the
\* message of the error it rejects with
VerifyIdToken(tok) ==
    IF Len(tok) = 1 THEN IdpAnswer(tok[1]) ELSE IdpAnswer("junk")

(***************************************************************************)
(* Authorization header                                                    *)
(***************************************************************************)
NoHeader == [present |-> FALSE, atoms |-> <<>>]

Bearer(t) == [present |-> TRUE, atoms |-> <<Prefix, t>>]

\* authHeader.startsWith('Bearer ') on a header that is there and not ''
StartsWithBearer(h) ==
    h.present /\ Len(h.atoms) >= 1 /\ h.atoms[1] = Prefix

\* authHeader.split('Bearer '): the pieces between the occurrences of the
\* separator, as many pieces as occurrences plus one
RECURSIVE SplitBearer(_)
SplitBearer(s) ==
    IF s = <<>> THEN << <<>> >>
    ELSE LET rest == SplitBearer(Tail(s)) IN
         IF Head(s) = Prefix
         THEN << <<>> >> \o rest
         ELSE << <<Head(s)>> \o rest[1] >> \o Tail(rest)

\* authHeader.split('Bearer ')[1] (index 1 of a 0-based array)
ExtractToken(h) ==
    LET parts == SplitBearer(h.atoms) IN
    IF Len(parts) >= 2 THEN parts[2] ELSE <<>>

(***************************************************************************)
(* Error messages                                                          *)
(***************************************************************************)
Lower(w) ==
    CASE w = "Invalid" -> "invalid"
      [] w = "Firebase" -> "firebase"
      [] w = "Decoding" -> "decoding"
      [] w = "ID" -> "id"
      [] w = "E11000" -> "e11000"
      [] w = "User" -> "user"
      [] w = "B@x" -> "b@x"
      [] OTHER -> w

\* error.message.toLowerCase()
ToLowerCase(msg) == [i \in 1..Len(msg) |-> Lower(msg[i])]

\* errorMessage.includes(w)
Includes(msg, w) == \E i \in 1..Len(msg) : msg[i] = w

(***************************************************************************)
(* The User collection                                                     *)
(***************************************************************************)
NoUser == [id |-> 0, uid |-> "", email |-> "", displayName |-> "",
           photoURL |-> "", role |-> "", isActive |-> FALSE, lastLoginAt |-> 0]

\* displayName: { trim: true }
Trim(s) == IF s = " N2 " THEN "N2" ELSE s

\* a mutant of FindOne: the isActive part of the filter is dropped
FindOneAnyStatus(uid, activeOnly) ==
    LET hits == {d \in users : d.uid = uid} IN
    IF hits = {} THEN NoUser
    ELSE CHOOSE d \in hits : \A e \in hits : d.id <= e.id

\* User.findOne(filter): the first matching document, or null
FindOne(uid, activeOnly) ==
    LET hits == {d \in users : d.uid = uid /\ (activeOnly => d.isActive)} IN
    IF hits = {} THEN NoUser
    ELSE CHOOSE d \in hits : \A e \in hits : d.id <= e.id

\* an ObjectId no document and no request holds
FreshId ==
    CHOOSE n \in 1..(Cardinality(users) + Cardinality(Slots) + 1) :
        /\ \A d \in users : d.id # n
        /\ \A s \in Slots : req[s].mongoUser.id # n

\* a mutant of NewUser: the new account is an administrator
NewUserAdmin(claims) ==
    [id |-> FreshId, uid |-> claims.uid, email |-> Lower(claims.email),
     displayName |-> Trim(claims.name), photoURL |-> claims.picture,
     role |-> "admin", isActive |-> TRUE, lastLoginAt |-> now]

\* a mutant of NewUser: the new account is not active
NewUserInactive(claims) ==
    [id |-> FreshId, uid |-> claims.uid, email |-> Lower(claims.email),
     displayName |-> Trim(claims.name), photoURL |-> claims.picture,
     role |-> "user", isActive |-> FALSE, lastLoginAt |-> now]

\* new User({...}) as the handlers build it from verified claims; the schema
\* lower-cases the email and trims the display name
NewUser(claims) ==
    [id |-> FreshId, uid |-> claims.uid, email |-> Lower(claims.email),
     displayName |-> Trim(claims.name), photoURL |-> claims.picture,
     role |-> "user", isActive |-> TRUE, lastLoginAt |-> now]

\* a mutant of InsertError: the unique index on uid is missing
InsertErrorNoUidIndex(doc) ==
    IF doc.uid = "" \/ doc.email = "" THEN "ValidationError"
    ELSE IF \E d \in users : d.email = doc.email THEN "E11000"
    ELSE "none"

\* a mutant of InsertError: the unique index on uid covers the active
\* accounts only
InsertErrorUidAmongActive(doc) ==
    IF doc.uid = "" \/ doc.email = "" THEN "ValidationError"
    ELSE IF \E d \in users : d.uid = doc.uid /\ d.isActive THEN "E11000"
    ELSE "none"

\* save() of a new document: the schema's required paths, then the unique
\* indexes on uid and on email
InsertError(doc) ==
    IF doc.uid = "" \/ doc.email = "" THEN "ValidationError"
    ELSE IF \E d \in users : d.uid = doc.uid \/ d.email = doc.email THEN "E11000"
    ELSE "none"

\* save() of a loaded document: the modified paths are written to the
\* stored document of the same _id; the unique index on email is checked
UpdateError(doc) ==
    IF doc.email = "" THEN "ValidationError"
    ELSE IF \E d \in users : d.id # doc.id /\ d.email = doc.email THEN "E11000"
    ELSE "none"

(***************************************************************************)
(* Requests                                                                *)
(***************************************************************************)
NoRes == [status |-> 0, error |-> ""]

NoInfo == [uid |-> "", email |-> "", name |-> "", picture |-> ""]

Idle == [mw |-> "idle", pc |-> "idle", header |-> NoHeader, token |-> <<>>,
         decoded |-> NoDecoded, claims |-> NoClaims, user |-> NoInfo,
         mongoUser |-> NoUser, res |-> NoRes, nextCalled |-> 0,
         jwtCalls |-> 0, idpCalls |-> 0, idpArg |-> <<>>,
         reads |-> 0, writes |-> 0, storeErr |-> "", created |-> FALSE,
         dirty |-> {}, issued |-> NoDecoded, accessToken |-> "", issuedAt |-> 0,
         route |-> "", target |-> NoUser]

\* res.status(s).json({success: false, error: e, ...}); return
Respond(r, s, e) ==
    [r EXCEPT !.pc = "done", !.res = [status |-> s, error |-> e]]

\* a store operation rejects: the error is remembered, then the handler's
\* catch block answers
Thrown(r, err) == [r EXCEPT !.storeErr = err]

\* what the handlers copy of the verified claims into req.user
InfoOf(c) == [uid |-> c.uid, email |-> c.email, name |-> c.name,
              picture |-> c.picture]

\* the stored documents with the modified paths of a loaded one written back
WriteBack(doc, paths) ==
    {IF d.id = doc.id
     THEN [f \in DOMAIN d |-> IF f \in paths THEN doc[f] ELSE d[f]]
     ELSE d : d \in users}

\* the paths of a loaded document that an assignment changed: save() writes
\* these and no others
Modified(loaded, doc) == {f \in DOMAIN doc : doc[f] # loaded[f]}

\* a mutant of UpdateLastLogin: the display name is cleared as well
UpdateLastLoginAndName(doc) == [doc EXCEPT !.lastLoginAt = now, !.displayName = ""]

\* userSchema.methods.updateLastLogin: this.lastLoginAt = new Date()
UpdateLastLogin(doc) == [doc EXCEPT !.lastLoginAt = now]

\* the message of the error a store operation rejects with
StoreMsg(err) ==
    CASE err = "E11000" -> <<"E11000", "duplicate", "key", "error">>
      [] err = "ValidationError" -> <<"User", "validation", "failed">>
      [] OTHER -> <<"connection", "closed">>

\* a mutant of Classify: 'invalid' is looked for before 'expired'
ClassifyInvalidFirst(r, msg, status, error) ==
    LET errorMessage == ToLowerCase(msg) IN
    IF Includes(errorMessage, "invalid") THEN Respond(r, 401, "INVALID_TOKEN")
    ELSE IF Includes(errorMessage, "expired") THEN Respond(r, 401, "TOKEN_EXPIRED")
    ELSE Respond(r, status, error)

\* the catch blocks that look into error.message: 'expired' first, then
\* 'invalid', then the handler's own last answer
Classify(r, msg, status, error) ==
    LET errorMessage == ToLowerCase(msg) IN
    IF Includes(errorMessage, "expired") THEN Respond(r, 401, "TOKEN_EXPIRED")
    ELSE IF Includes(errorMessage, "invalid") THEN Respond(r, 401, "INVALID_TOKEN")
    ELSE Respond(r, status, error)

(***************************************************************************)
(* authenticateToken                                                       *)
(***************************************************************************)
\* a mutant of AuthenticateTokenBegin: the header is not checked before the
\* token is taken from it
AuthenticateTokenBeginNoHeaderCheck(s, h) ==
    /\ req[s].pc = "idle"
    /\ LET r0 == [Idle EXCEPT !.mw = "authenticateToken", !.header = h]
           tok == ExtractToken(h)
           dec == JwtVerify(tok)
           r1 == [r0 EXCEPT !.token = tok, !.jwtCalls = 1, !.decoded = dec]
       IN req' = [req EXCEPT ![s] =
            IF dec.ok
            THEN IF dec.type = "access_token"
                 THEN [r1 EXCEPT !.pc = "locFind"]
                 ELSE [r1 EXCEPT !.pc = "hung"]
            ELSE [r1 EXCEPT !.pc = "verify", !.idpCalls = 1, !.idpArg = tok]]
    /\ UNCHANGED <<users, now, users0, resets, proc>>

\* a mutant of AuthenticateTokenBegin: a token jwt.verify refuses is answered
\* at once, the identity provider is not asked
AuthenticateTokenBeginLocalOnly(s, h) ==
    /\ req[s].pc = "idle"
    /\ LET r0 == [Idle EXCEPT !.mw = "authenticateToken", !.header = h]
           tok == ExtractToken(h)
           dec == JwtVerify(tok)
           r1 == [r0 EXCEPT !.token = tok, !.jwtCalls = 1, !.decoded = dec]
       IN req' = [req EXCEPT ![s] =
            IF ~StartsWithBearer(h)
            THEN Respond(r0, 401, "UNAUTHORIZED")
            ELSE IF tok = <<>>
            THEN Respond(r0, 401, "INVALID_TOKEN")
            ELSE IF dec.ok
            THEN IF dec.type = "access_token"
                 THEN [r1 EXCEPT !.pc = "locFind"]
                 ELSE [r1 EXCEPT !.pc = "hung"]
            ELSE Respond(r1, 401, "INVALID_TOKEN")]
    /\ UNCHANGED <<users, now, users0, resets, proc>>

\* from the header to the first await: the header checks, jwt.verify, and
\* either User.findOne (local token) or auth.verifyIdToken (catch) called
AuthenticateTokenBegin(s, h) ==
    /\ req[s].pc = "idle"
    /\ LET r0 == [Idle EXCEPT !.mw = "authenticateToken", !.header = h]
           tok == ExtractToken(h)
           dec == JwtVerify(tok)
           r1 == [r0 EXCEPT !.token = tok, !.jwtCalls = 1, !.decoded = dec]
       IN req' = [req EXCEPT ![s] =
            IF ~StartsWithBearer(h)
            THEN Respond(r0, 401, "UNAUTHORIZED")
            ELSE IF tok = <<>>
            THEN Respond(r0, 401, "INVALID_TOKEN")
            ELSE IF dec.ok
            THEN IF dec.type = "access_token"
                 THEN [r1 EXCEPT !.pc = "locFind"]
                 \* the if is skipped and the try block ends: nothing is sent
                 \* and next() is not called
                 ELSE [r1 EXCEPT !.pc = "hung"]
            ELSE [r1 EXCEPT !.pc = "verify", !.idpCalls = 1, !.idpArg = tok]]
    /\ UNCHANGED <<users, now, users0, resets, proc>>

\* a mutant of AuthenticateTokenLocalFind: the local path records the login
\* on the account it found
AuthenticateTokenLocalFindTouching(s) ==
    /\ req[s].mw = "authenticateToken" /\ req[s].pc = "locFind"
    /\ LET r == [req[s] EXCEPT !.reads = @ + 1]
           doc == FindOne(r.decoded.uid, TRUE)
       IN \/ /\ doc = NoUser
             /\ users' = users
             /\ req' = [req EXCEPT ![s] = Respond(r, 401, "USER_NOT_FOUND")]
          \/ /\ doc # NoUser
             /\ users' = WriteBack(UpdateLastLogin(doc), {"lastLoginAt"})
             /\ req' = [req EXCEPT ![s] =
                   [r EXCEPT !.pc = "done", !.mongoUser = UpdateLastLogin(doc),
                             !.writes = @ + 1, !.nextCalled = @ + 1]]
    /\ UNCHANGED <<now, users0, resets, proc>>

\* await User.findOne({uid: decoded.uid, isActive: true}) on the local path
AuthenticateTokenLocalFind(s) ==
    /\ req[s].mw = "authenticateToken" /\ req[s].pc = "locFind"
    /\ LET r == [req[s] EXCEPT !.reads = @ + 1]
           doc == FindOne(r.decoded.uid, TRUE)
       IN \/ /\ doc = NoUser
             /\ req' = [req EXCEPT ![s] = Respond(r, 401, "USER_NOT_FOUND")]
          \/ /\ doc # NoUser
             /\ req' = [req EXCEPT ![s] =
                   [r EXCEPT !.pc = "done", !.mongoUser = doc,
                             !.user = [uid |-> r.decoded.uid,
                                       email |-> r.decoded.email,
                                       name |-> doc.displayName,
                                       picture |-> doc.photoURL],
                             !.nextCalled = @ + 1]]
          \* findOne rejects inside the inner try: catch (jwtError) runs and
          \* calls auth.verifyIdToken(token)
          \/ req' = [req EXCEPT ![s] =
                   [Thrown(r, "unavailable") EXCEPT !.pc = "verify",
                        !.idpCalls = @ + 1, !.idpArg = r.token]]
    /\ UNCHANGED <<users, now, users0, resets, proc>>

\* a mutant of AuthenticateTokenVerified: a token the provider rejects is
\* sent to it a second time
AuthenticateTokenVerifiedRetry(s) ==
    /\ req[s].mw = "authenticateToken" /\ req[s].pc = "verify"
    /\ LET r == req[s]
           ans == VerifyIdToken(r.idpArg)
       IN req' = [req EXCEPT ![s] =
            IF ans.ok
            THEN [r EXCEPT !.pc = "find", !.claims = ans]
            ELSE IF r.idpCalls < 2
            THEN [r EXCEPT !.idpCalls = @ + 1]
            ELSE Respond([r EXCEPT !.claims = ans], 401, "INVALID_TOKEN")]
    /\ UNCHANGED <<users, now, users0, resets, proc>>

\* await auth.verifyIdToken(token) answers
AuthenticateTokenVerified(s) ==
    /\ req[s].mw = "authenticateToken" /\ req[s].pc = "verify"
    /\ LET r == req[s]
           ans == VerifyIdToken(r.idpArg)
       IN req' = [req EXCEPT ![s] =
            IF ans.ok
            THEN [r EXCEPT !.pc = "find", !.claims = ans]
            ELSE Respond([r EXCEPT !.claims = ans], 401, "INVALID_TOKEN")]
    /\ UNCHANGED <<users, now, users0, resets, proc>>

\* await User.findOne({uid: decodedToken.uid, isActive: true}) answers; then
\* new User({...}) and save() called, or updateLastLogin() called
AuthenticateTokenFind(s) ==
    /\ req[s].mw = "authenticateToken" /\ req[s].pc = "find"
    /\ LET r == [req[s] EXCEPT !.reads = @ + 1]
           doc == FindOne(r.claims.uid, TRUE)
       IN \/ /\ doc = NoUser
             /\ req' = [req EXCEPT ![s] =
                   [r EXCEPT !.pc = "create", !.mongoUser = NewUser(r.claims)]]
          \/ /\ doc # NoUser
             /\ req' = [req EXCEPT ![s] =
                   [r EXCEPT !.pc = "update",
                             !.mongoUser = UpdateLastLogin(doc),
                             !.dirty = Modified(doc, UpdateLastLogin(doc))]]
          \/ req' = [req EXCEPT ![s] =
                   Respond(Thrown(r, "unavailable"), 401, "INVALID_TOKEN")]
    /\ UNCHANGED <<users, now, users0, resets, proc>>

\* await mongoUser.save() of the new document answers
AuthenticateTokenCreate(s) ==
    /\ req[s].mw = "authenticateToken" /\ req[s].pc = "create"
    /\ LET r == [req[s] EXCEPT !.writes = @ + 1]
           err == InsertError(r.mongoUser)
       IN \/ /\ err = "none"
             /\ users' = users \cup {r.mongoUser}
             /\ req' = [req EXCEPT ![s] =
                   [r EXCEPT !.pc = "done", !.created = TRUE,
                             !.user = InfoOf(r.claims), !.nextCalled = @ + 1]]
          \* catch (firebaseError) answers for a rejected save as well
          \/ /\ err # "none"
             /\ users' = users
             /\ req' = [req EXCEPT ![s] =
                   Respond(Thrown(r, err), 401, "INVALID_TOKEN")]
          \/ /\ users' = users
             /\ req' = [req EXCEPT ![s] =
                   Respond(Thrown(r, "unavailable"), 401, "INVALID_TOKEN")]
    /\ UNCHANGED <<now, users0, resets, proc>>

\* a mutant of AuthenticateTokenUpdate: the last login is written, and the
\* request is answered with an error all the same
AuthenticateTokenUpdateThenFail(s) ==
    /\ req[s].mw = "authenticateToken" /\ req[s].pc = "update"
    /\ LET r == [req[s] EXCEPT !.writes = @ + 1]
       IN /\ users' = WriteBack(r.mongoUser, r.dirty)
          /\ req' = [req EXCEPT ![s] =
                Respond(Thrown(r, "unavailable"), 401, "INVALID_TOKEN")]
    /\ UNCHANGED <<now, users0, resets, proc>>

\* await mongoUser.updateLastLogin() answers
AuthenticateTokenUpdate(s) ==
    /\ req[s].mw = "authenticateToken" /\ req[s].pc = "update"
    /\ LET r == [req[s] EXCEPT !.writes = @ + 1]
       IN \/ /\ users' = WriteBack(r.mongoUser, r.dirty)
             /\ req' = [req EXCEPT ![s] =
                   [r EXCEPT !.pc = "done", !.user = InfoOf(r.claims),
                             !.nextCalled = @ + 1]]
          \/ /\ users' = users
             /\ req' = [req EXCEPT ![s] =
                   Respond(Thrown(r, "unavailable"), 401, "INVALID_TOKEN")]
    /\ UNCHANGED <<now, users0, resets, proc>>

(***************************************************************************)
(* authenticateFirebaseUser (Express API)                                  *)
(***************************************************************************)
AuthenticateFirebaseUserBegin(s, h) ==
    /\ req[s].pc = "idle"
    /\ LET r0 == [Idle EXCEPT !.mw = "authenticateFirebaseUser", !.header = h]
           idToken == ExtractToken(h)
       IN req' = [req EXCEPT ![s] =
            IF ~StartsWithBearer(h)
            THEN Respond(r0, 401, "UNAUTHORIZED")
            ELSE IF idToken = <<>>
            THEN Respond(r0, 401, "INVALID_TOKEN")
            ELSE [r0 EXCEPT !.token = idToken, !.pc = "verify",
                            !.idpCalls = 1, !.idpArg = idToken]]
    /\ UNCHANGED <<users, now, users0, resets, proc>>

AuthenticateFirebaseUserVerified(s) ==
    /\ req[s].mw = "authenticateFirebaseUser" /\ req[s].pc = "verify"
    /\ LET r == req[s]
           ans == VerifyIdToken(r.idpArg)
       IN req' = [req EXCEPT ![s] =
            IF ans.ok
            THEN [r EXCEPT !.pc = "find", !.claims = ans]
            ELSE Classify([r EXCEPT !.claims = ans], ans.msg,
                          401, "AUTHENTICATION_FAILED")]
    /\ UNCHANGED <<users, now, users0, resets, proc>>

AuthenticateFirebaseUserFind(s) ==
    /\ req[s].mw = "authenticateFirebaseUser" /\ req[s].pc = "find"
    /\ LET r == [req[s] EXCEPT !.reads = @ + 1]
           doc == FindOne(r.claims.uid, TRUE)
       IN \/ /\ doc = NoUser
             /\ req' = [req EXCEPT ![s] =
                   [r EXCEPT !.pc = "create", !.mongoUser = NewUser(r.claims)]]
          \/ /\ doc # NoUser
             /\ req' = [req EXCEPT ![s] =
                   [r EXCEPT !.pc = "update",
                             !.mongoUser = UpdateLastLogin(doc),
                             !.dirty = Modified(doc, UpdateLastLogin(doc))]]
          \/ req' = [req EXCEPT ![s] =
                   Classify(Thrown(r, "unavailable"), StoreMsg("unavailable"),
                            401, "AUTHENTICATION_FAILED")]
    /\ UNCHANGED <<users, now, users0, resets, proc>>

AuthenticateFirebaseUserCreate(s) ==
    /\ req[s].mw = "authenticateFirebaseUser" /\ req[s].pc = "create"
    /\ LET r == [req[s] EXCEPT !.writes = @ + 1]
           err == InsertError(r.mongoUser)
       IN \/ /\ err = "none"
             /\ users' = users \cup {r.mongoUser}
             /\ req' = [req EXCEPT ![s] =
                   [r EXCEPT !.pc = "done", !.created = TRUE,
                             !.user = InfoOf(r.claims), !.nextCalled = @ + 1]]
          \/ /\ err # "none"
             /\ users' = users
             /\ req' = [req EXCEPT ![s] =
                   Classify(Thrown(r, err), StoreMsg(err),
                            401, "AUTHENTICATION_FAILED")]
          \/ /\ users' = users
             /\ req' = [req EXCEPT ![s] =
                   Classify(Thrown(r, "unavailable"), StoreMsg("unavailable"),
                            401, "AUTHENTICATION_FAILED")]
    /\ UNCHANGED <<now, users0, resets, proc>>

AuthenticateFirebaseUserUpdate(s) ==
    /\ req[s].mw = "authenticateFirebaseUser" /\ req[s].pc = "update"
    /\ LET r == [req[s] EXCEPT !.writes = @ + 1]
       IN \/ /\ users' = WriteBack(r.mongoUser, r.dirty)
             /\ req' = [req EXCEPT ![s] =
                   [r EXCEPT !.pc = "done", !.user = InfoOf(r.claims),
                             !.nextCalled = @ + 1]]
          \/ /\ users' = users
             /\ req' = [req EXCEPT ![s] =
                   Classify(Thrown(r, "unavailable"), StoreMsg("unavailable"),
                            401, "AUTHENTICATION_FAILED")]
    /\ UNCHANGED <<now, users0, resets, proc>>

(***************************************************************************)
(* POST /auth/login                                                        *)
(***************************************************************************)
\* a mutant of OrElse: the claim is taken even when it is empty
OrElseFirst(x, y) == x

\* x || y on strings: y when x is undefined or ''
OrElse(x, y) == IF x = "" THEN y ELSE x

\* the else branch of the login handler: last login and the Firebase data
\* assigned to the loaded document (the schema's setters apply)
SyncFromClaims(doc, claims) ==
    [doc EXCEPT !.lastLoginAt = now,
                !.email = Lower(OrElse(claims.email, doc.email)),
                !.displayName = Trim(OrElse(claims.name, doc.displayName)),
                !.photoURL = OrElse(claims.picture, doc.photoURL)]

\* body('idToken').notEmpty().isString(), then auth.verifyIdToken called
LoginBegin(s, idToken) ==
    /\ req[s].pc = "idle"
    /\ LET r0 == [Idle EXCEPT !.mw = "login", !.token = idToken]
       IN req' = [req EXCEPT ![s] =
            IF idToken = <<>>
            THEN Respond(r0, 400, "VALIDATION_ERROR")
            ELSE [r0 EXCEPT !.pc = "verify", !.idpCalls = 1,
                            !.idpArg = idToken]]
    /\ UNCHANGED <<users, now, users0, resets, proc>>

LoginVerified(s) ==
    /\ req[s].mw = "login" /\ req[s].pc = "verify"
    /\ LET r == req[s]
           ans == VerifyIdToken(r.idpArg)
       IN req' = [req EXCEPT ![s] =
            IF ans.ok
            THEN [r EXCEPT !.pc = "find", !.claims = ans]
            ELSE Classify([r EXCEPT !.claims = ans], ans.msg,
                          500, "LOGIN_FAILED")]
    /\ UNCHANGED <<users, now, users0, resets, proc>>

\* await User.findOne({uid: decodedToken.uid}) answers
LoginFind(s) ==
    /\ req[s].mw = "login" /\ req[s].pc = "find"
    /\ LET r == [req[s] EXCEPT !.reads = @ + 1]
           doc == FindOne(r.claims.uid, FALSE)
       IN \/ /\ doc = NoUser
             /\ req' = [req EXCEPT ![s] =
                   [r EXCEPT !.pc = "create", !.mongoUser = NewUser(r.claims)]]
          \/ /\ doc # NoUser
             /\ req' = [req EXCEPT ![s] =
                   [r EXCEPT !.pc = "update",
                             !.mongoUser = SyncFromClaims(doc, r.claims),
                             !.dirty = Modified(doc, SyncFromClaims(doc, r.claims))]]
          \/ req' = [req EXCEPT ![s] =
                   Classify(Thrown(r, "unavailable"), StoreMsg("unavailable"),
                            500, "LOGIN_FAILED")]
    /\ UNCHANGED <<users, now, users0, resets, proc>>

LoginCreate(s) ==
    /\ req[s].mw = "login" /\ req[s].pc = "create"
    /\ LET r == [req[s] EXCEPT !.writes = @ + 1]
           err == InsertError(r.mongoUser)
       IN \/ /\ err = "none"
             /\ users' = users \cup {r.mongoUser}
             /\ req' = [req EXCEPT ![s] =
                   [Respond(r, 200, "") EXCEPT !.created = TRUE]]
          \/ /\ err # "none"
             /\ users' = users
             /\ req' = [req EXCEPT ![s] =
                   Classify(Thrown(r, err), StoreMsg(err), 500, "LOGIN_FAILED")]
          \/ /\ users' = users
             /\ req' = [req EXCEPT ![s] =
                   Classify(Thrown(r, "unavailable"), StoreMsg("unavailable"),
                            500, "LOGIN_FAILED")]
    /\ UNCHANGED <<now, users0, resets, proc>>

LoginUpdate(s) ==
    /\ req[s].mw = "login" /\ req[s].pc = "update"
    /\ LET r == [req[s] EXCEPT !.writes = @ + 1]
           err == IF "email" \in r.dirty THEN UpdateError(r.mongoUser) ELSE "none"
       IN \/ /\ err = "none"
             /\ users' = WriteBack(r.mongoUser, r.dirty)
             /\ req' = [req EXCEPT ![s] = Respond(r, 200, "")]
          \/ /\ err # "none"
             /\ users' = users
             /\ req' = [req EXCEPT ![s] =
                   Classify(Thrown(r, err), StoreMsg(err), 500, "LOGIN_FAILED")]
          \/ /\ users' = users
             /\ req' = [req EXCEPT ![s] =
                   Classify(Thrown(r, "unavailable"), StoreMsg("unavailable"),
                            500, "LOGIN_FAILED")]
    /\ UNCHANGED <<now, users0, resets, proc>>

(***************************************************************************)
(* POST /auth/token                                                        *)
(***************************************************************************)
\* the payload jwt.sign is given
AccessTokenPayload(claims, mongoUser) ==
    [ok |-> TRUE, type |-> "access_token", uid |-> claims.uid,
     email |-> OrElse(claims.email, ""), role |-> mongoUser.role]

\* after the account is loaded or created: the active check, then the
\* access token signed and sent
TokenAnswer(r) ==
    IF ~r.mongoUser.isActive
    THEN Respond(r, 401, "ACCOUNT_DISABLED")
    ELSE [Respond(r, 200, "") EXCEPT
            !.issued = AccessTokenPayload(r.claims, r.mongoUser),
            !.accessToken =
                JwtSign(AccessTokenPayload(r.claims, r.mongoUser), JwtSecret),
            !.issuedAt = now]

TokenBegin(s, idToken) ==
    /\ req[s].pc = "idle"
    /\ LET r0 == [Idle EXCEPT !.mw = "token", !.token = idToken]
       IN req' = [req EXCEPT ![s] =
            IF idToken = <<>>
            THEN Respond(r0, 400, "VALIDATION_ERROR")
            ELSE [r0 EXCEPT !.pc = "verify", !.idpCalls = 1,
                            !.idpArg = idToken]]
    /\ UNCHANGED <<users, now, users0, resets, proc>>

TokenVerified(s) ==
    /\ req[s].mw = "token" /\ req[s].pc = "verify"
    /\ LET r == req[s]
           ans == VerifyIdToken(r.idpArg)
       IN req' = [req EXCEPT ![s] =
            IF ans.ok
            THEN [r EXCEPT !.pc = "find", !.claims = ans]
            ELSE Classify([r EXCEPT !.claims = ans], ans.msg,
                          500, "TOKEN_EXCHANGE_FAILED")]
    /\ UNCHANGED <<users, now, users0, resets, proc>>

TokenFind(s) ==
    /\ req[s].mw = "token" /\ req[s].pc = "find"
    /\ LET r == [req[s] EXCEPT !.reads = @ + 1]
           doc == FindOne(r.claims.uid, TRUE)
       IN \/ /\ doc = NoUser
             /\ req' = [req EXCEPT ![s] =
                   [r EXCEPT !.pc = "create", !.mongoUser = NewUser(r.claims)]]
          \/ /\ doc # NoUser
             /\ req' = [req EXCEPT ![s] =
                   [r EXCEPT !.pc = "update",
                             !.mongoUser = UpdateLastLogin(doc),
                             !.dirty = Modified(doc, UpdateLastLogin(doc))]]
          \/ req' = [req EXCEPT ![s] =
                   Classify(Thrown(r, "unavailable"), StoreMsg("unavailable"),
                            500, "TOKEN_EXCHANGE_FAILED")]
    /\ UNCHANGED <<users, now, users0, resets, proc>>

TokenCreate(s) ==
    /\ req[s].mw = "token" /\ req[s].pc = "create"
    /\ LET r == [req[s] EXCEPT !.writes = @ + 1]
           err == InsertError(r.mongoUser)
       IN \/ /\ err = "none"
             /\ users' = users \cup {r.mongoUser}
             /\ req' = [req EXCEPT ![s] =
                   TokenAnswer([r EXCEPT !.created = TRUE])]
          \/ /\ err # "none"
             /\ users' = users
             /\ req' = [req EXCEPT ![s] =
                   Classify(Thrown(r, err), StoreMsg(err),
                            500, "TOKEN_EXCHANGE_FAILED")]
          \/ /\ users' = users
             /\ req' = [req EXCEPT ![s] =
                   Classify(Thrown(r, "unavailable"), StoreMsg("unavailable"),
                            500, "TOKEN_EXCHANGE_FAILED")]
    /\ UNCHANGED <<now, users0, resets, proc>>

TokenUpdate(s) ==
    /\ req[s].mw = "token" /\ req[s].pc = "update"
    /\ LET r == [req[s] EXCEPT !.writes = @ + 1]
       IN \/ /\ users' = WriteBack(r.mongoUser, r.dirty)
             /\ req' = [req EXCEPT ![s] = TokenAnswer(r)]
          \/ /\ users' = users
             /\ req' = [req EXCEPT ![s] =
                   Classify(Thrown(r, "unavailable"), StoreMsg("unavailable"),
                            500, "TOKEN_EXCHANGE_FAILED")]
    /\ UNCHANGED <<now, users0, resets, proc>>

(***************************************************************************)
(* authenticateFirebaseUser (Functions API)                                *)
(***************************************************************************)
FunctionsAuthenticateFirebaseUserBegin(s, h) ==
    /\ req[s].pc = "idle"
    /\ LET r0 == [Idle EXCEPT !.mw = "functionsAuthenticateFirebaseUser",
                              !.header = h]
           idToken == ExtractToken(h)
       IN req' = [req EXCEPT ![s] =
            IF ~StartsWithBearer(h)
            THEN Respond(r0, 401, "UNAUTHORIZED")
            ELSE IF idToken = <<>>
            THEN Respond(r0, 401, "INVALID_TOKEN")
            ELSE [r0 EXCEPT !.token = idToken, !.pc = "verify",
                            !.idpCalls = 1, !.idpArg = idToken]]
    /\ UNCHANGED <<users, now, users0, resets, proc>>

\* a mutant of FunctionsAuthenticateFirebaseUserVerified: the account of
\* the uid is looked up and attached
FunctionsAuthenticateFirebaseUserVerifiedLookup(s) ==
    /\ req[s].mw = "functionsAuthenticateFirebaseUser" /\ req[s].pc = "verify"
    /\ LET r == req[s]
           ans == VerifyIdToken(r.idpArg)
       IN req' = [req EXCEPT ![s] =
            IF ans.ok
            THEN [r EXCEPT !.pc = "done", !.claims = ans,
                           !.user = InfoOf(ans), !.nextCalled = @ + 1,
                           !.reads = @ + 1,
                           !.mongoUser = FindOne(ans.uid, TRUE)]
            ELSE Classify([r EXCEPT !.claims = ans], ans.msg,
                          401, "AUTHENTICATION_FAILED")]
    /\ UNCHANGED <<users, now, users0, resets, proc>>

\* await auth.verifyIdToken(idToken) answers: the claims are attached and
\* next() is called, or the catch block answers
FunctionsAuthenticateFirebaseUserVerified(s) ==
    /\ req[s].mw = "functionsAuthenticateFirebaseUser" /\ req[s].pc = "verify"
    /\ LET r == req[s]
           ans == VerifyIdToken(r.idpArg)
       IN req' = [req EXCEPT ![s] =
            IF ans.ok
            THEN [r EXCEPT !.pc = "done", !.claims = ans,
                           !.user = InfoOf(ans), !.nextCalled = @ + 1]
            ELSE Classify([r EXCEPT !.claims = ans], ans.msg,
                          401, "AUTHENTICATION_FAILED")]
    /\ UNCHANGED <<users, now, users0, resets, proc>>

(***************************************************************************)
(* requireActiveUser, requireAdmin                                         *)
(***************************************************************************)
\* userSchema.methods.isAdmin
IsAdmin(doc) == doc.role = "admin"

\* a mutant of RequireActiveUser: any attached account is let through
RequireActiveUserAnyAccount(r) ==
    IF r.mongoUser = NoUser THEN Respond(r, 401, "UNAUTHORIZED")
    ELSE [r EXCEPT !.nextCalled = @ + 1]

\* a mutant of RequireAdmin: any attached account is let through
RequireAdminAnyAccount(r) ==
    IF r.mongoUser = NoUser THEN Respond(r, 401, "UNAUTHORIZED")
    ELSE [r EXCEPT !.nextCalled = @ + 1]

\* requireActiveUser on a request: an answer, or next()
RequireActiveUser(r) ==
    IF r.mongoUser = NoUser THEN Respond(r, 401, "UNAUTHORIZED")
    ELSE IF ~r.mongoUser.isActive THEN Respond(r, 403, "ACCOUNT_DISABLED")
    ELSE [r EXCEPT !.nextCalled = @ + 1]

\* a mutant of RequireAdmin: the role is that of the local token's payload
RequireAdminByToken(r) ==
    IF r.mongoUser = NoUser THEN Respond(r, 401, "UNAUTHORIZED")
    ELSE IF r.decoded.role # "admin" THEN Respond(r, 403, "FORBIDDEN")
    ELSE [r EXCEPT !.nextCalled = @ + 1]

\* requireAdmin on a request: an answer, or next()
RequireAdmin(r) ==
    IF r.mongoUser = NoUser THEN Respond(r, 401, "UNAUTHORIZED")
    ELSE IF ~IsAdmin(r.mongoUser) THEN Respond(r, 403, "FORBIDDEN")
    ELSE [r EXCEPT !.nextCalled = @ + 1]

\* what a request may carry as req.mongoUser when a gate is called on it
\* directly: nothing, or an account of either role, active or not
GateAccounts ==
    {NoUser} \cup
    {[id |-> 1, uid |-> "u1", email |-> "a@x", displayName |-> "N1",
      photoURL |-> "P1", role |-> ro, isActive |-> a, lastLoginAt |-> 0] :
        ro \in {"user", "admin"}, a \in BOOLEAN}

\* requireActiveUser called on a request that no middleware handled before
RequireActiveUserAlone(s, m) ==
    /\ req[s].pc = "idle"
    /\ req' = [req EXCEPT ![s] =
          RequireActiveUser([Idle EXCEPT !.mw = "requireActiveUser",
                                         !.pc = "done", !.mongoUser = m])]
    /\ UNCHANGED <<users, now, users0, resets, proc>>

\* requireAdmin called on a request that no middleware handled before
RequireAdminAlone(s, m) ==
    /\ req[s].pc = "idle"
    /\ req' = [req EXCEPT ![s] =
          RequireAdmin([Idle EXCEPT !.mw = "requireAdmin",
                                    !.pc = "done", !.mongoUser = m])]
    /\ UNCHANGED <<users, now, users0, resets, proc>>

\* router.use(authenticateToken); router.use(requireActiveUser): the gate
\* runs when authenticateToken has called next(); router is the router the
\* request came to
RequireActiveUserNext(s, router) ==
    /\ req[s].mw = "authenticateToken" /\ req[s].pc = "done"
    /\ req[s].nextCalled = 1 /\ req[s].res = NoRes /\ req[s].route = ""
    /\ LET g == RequireActiveUser([req[s] EXCEPT !.route = router])
       IN req' = [req EXCEPT ![s] =
            IF g.res # NoRes THEN g
            ELSE [g EXCEPT !.pc = IF router = "admin" THEN "requireAdmin"
                                  ELSE "handler"]]
    /\ UNCHANGED <<users, now, users0, resets, proc>>

\* a mutant of RequireAdminNext: the admin router does not use requireAdmin
RequireAdminNextOpen(s) ==
    /\ req[s].route = "admin" /\ req[s].pc = "requireAdmin"
    /\ req' = [req EXCEPT ![s] =
          [req[s] EXCEPT !.pc = "handler", !.nextCalled = @ + 1]]
    /\ UNCHANGED <<users, now, users0, resets, proc>>

\* router.use(requireAdmin) of the admin router
RequireAdminNext(s) ==
    /\ req[s].route = "admin" /\ req[s].pc = "requireAdmin"
    /\ LET g == RequireAdmin(req[s])
       IN req' = [req EXCEPT ![s] =
            IF g.res # NoRes THEN g ELSE [g EXCEPT !.pc = "handler"]]
    /\ UNCHANGED <<users, now, users0, resets, proc>>

(***************************************************************************)
(* PATCH /users/update                                                     *)
(***************************************************************************)
\* the displayName of a request body: absent, or a string
ProfileBodies ==
    {[has |-> FALSE, displayName |-> ""]} \cup
    {[has |-> TRUE, displayName |-> n] : n \in {"", "N9"}}

\* validation, the assignment to req.mongoUser, and save() called
UpdateProfileBegin(s, body) ==
    /\ req[s].route = "users" /\ req[s].pc = "handler"
    /\ LET r == req[s]
           doc == IF body.has
                  THEN [r.mongoUser EXCEPT !.displayName = Trim(body.displayName)]
                  ELSE r.mongoUser
       IN req' = [req EXCEPT ![s] =
            IF body.has /\ Trim(body.displayName) = ""
            THEN Respond(r, 400, "VALIDATION_ERROR")
            ELSE [r EXCEPT !.pc = "profileSave", !.mongoUser = doc,
                           !.dirty = Modified(r.mongoUser, doc)]]
    /\ UNCHANGED <<users, now, users0, resets, proc>>

\* await authReq.mongoUser.save() answers
UpdateProfileSave(s) ==
    /\ req[s].route = "users" /\ req[s].pc = "profileSave"
    /\ LET r == [req[s] EXCEPT !.writes = @ + 1]
       IN \/ /\ users' = WriteBack(r.mongoUser, r.dirty)
             /\ req' = [req EXCEPT ![s] = Respond(r, 200, "")]
          \/ /\ users' = users
             /\ req' = [req EXCEPT ![s] =
                   Respond(Thrown(r, "unavailable"), 500, "PROFILE_UPDATE_FAILED")]
    /\ UNCHANGED <<now, users0, resets, proc>>

(***************************************************************************)
(* PATCH /admin/users/:userId/toggle-status                                *)
(***************************************************************************)
\* the userId parameter: the _id of an account, or of none
UserIds == {1, 2}

\* User.findById(userId)
FindById(id) ==
    IF \E d \in users : d.id = id
    THEN CHOOSE d \in users : d.id = id
    ELSE NoUser

\* the handler starts: User.findById(userId) called
ToggleStatusBegin(s, userId) ==
    /\ req[s].route = "admin" /\ req[s].pc = "handler"
    /\ req' = [req EXCEPT ![s] =
          [req[s] EXCEPT !.pc = "toggleFind",
                         !.target = [NoUser EXCEPT !.id = userId]]]
    /\ UNCHANGED <<users, now, users0, resets, proc>>

\* await User.findById(userId) answers; user.isActive = !user.isActive and
\* save() called
ToggleStatusFind(s) ==
    /\ req[s].route = "admin" /\ req[s].pc = "toggleFind"
    /\ LET r == [req[s] EXCEPT !.reads = @ + 1]
           doc == FindById(r.target.id)
       IN \/ /\ doc = NoUser
             /\ req' = [req EXCEPT ![s] = Respond(r, 404, "USER_NOT_FOUND")]
          \/ /\ doc # NoUser
             /\ req' = [req EXCEPT ![s] =
                   [r EXCEPT !.pc = "toggleSave",
                             !.target = [doc EXCEPT !.isActive = ~doc.isActive]]]
          \/ req' = [req EXCEPT ![s] =
                   Respond(Thrown(r, "unavailable"), 500, "STATUS_UPDATE_FAILED")]
    /\ UNCHANGED <<users, now, users0, resets, proc>>

\* a mutant of ToggleStatusSave: an account that is deactivated is deleted
ToggleStatusSaveRemoving(s) ==
    /\ req[s].route = "admin" /\ req[s].pc = "toggleSave"
    /\ LET r == [req[s] EXCEPT !.writes = @ + 1]
       IN /\ users' = IF r.target.isActive
                      THEN WriteBack(r.target, {"isActive"})
                      ELSE {d \in users : d.id # r.target.id}
          /\ req' = [req EXCEPT ![s] = Respond(r, 200, "")]
    /\ UNCHANGED <<now, users0, resets, proc>>

\* await user.save() answers
ToggleStatusSave(s) ==
    /\ req[s].route = "admin" /\ req[s].pc = "toggleSave"
    /\ LET r == [req[s] EXCEPT !.writes = @ + 1]
       IN \/ /\ users' = WriteBack(r.target, {"isActive"})
             /\ req' = [req EXCEPT ![s] = Respond(r, 200, "")]
          \/ /\ users' = users
             /\ req' = [req EXCEPT ![s] =
                   Respond(Thrown(r, "unavailable"), 500, "STATUS_UPDATE_FAILED")]
    /\ UNCHANGED <<now, users0, resets, proc>>

(***************************************************************************)
(* Environment                                                             *)
(***************************************************************************)
\* time passes
Tick ==
    /\ now < MaxTime
    /\ now' = now + 1
    /\ UNCHANGED <<users, req, users0, resets, proc>>

\* the role of an account is changed in the collection; no route of the
\* API does it
SetRole(uid, role) ==
    /\ \E d \in users :
          /\ d.uid = uid /\ d.role # role
          /\ users' = (users \ {d}) \cup {[d EXCEPT !.role = role]}
    /\ UNCHANGED <<req, now, users0, resets, proc>>

\* the active flag of an account is changed in the collection, as the save
\* of toggle-status does for the request of an administrator
SetActive(uid, flag) ==
    /\ \E d \in users :
          /\ d.uid = uid /\ d.isActive # flag
          /\ users' = (users \ {d}) \cup {[d EXCEPT !.isActive = flag]}
    /\ UNCHANGED <<req, now, users0, resets, proc>>

\* the slot of an ended request takes the next request
Reset(s) ==
    /\ req[s].pc \in {"done", "hung"}
    /\ resets < MaxResets
    /\ resets' = resets + 1
    /\ req' = [req EXCEPT ![s] = Idle]
    /\ UNCHANGED <<users, now, users0, proc>>

(***************************************************************************)
(* The process: server.ts starts the server and installs gracefulShutdown  *)
(* for SIGTERM and SIGINT; config/database.ts, imported by app.ts before   *)
(* that, installs its own SIGINT listener                                  *)
(***************************************************************************)
\* the server listening, nothing pending, the database connected
Running == [server |-> "listening", closeOk |-> FALSE, closeErr |-> FALSE,
            timer |-> FALSE, shutdown |-> "none", dbHandler |-> FALSE,
            db |-> "connected", signals |-> 0, exit |-> "none",
            exitBy |-> ""]

Signals == {"SIGTERM", "SIGINT"}

\* process.exit(code) called from the place by
Exit(p, code, by) == [p EXCEPT !.exit = code, !.exitBy = by]

\* the connections the server has open: the requests that are being handled
OpenRequests == {s \in Slots : req[s].pc \notin {"idle", "done"}}

\* the process is sent sig and its listeners run, in the order they were
\* installed: for SIGINT the listener of config/database.ts, which calls
\* disconnectDB(); then gracefulShutdown, which calls server.close(callback)
\* and sets the 10 second timer.  server.close on a server that is no longer
\* listening keeps the callback for the 'close' event and gives it an error
Signal(sig) ==
    /\ proc.exit = "none" /\ proc.signals < MaxSignals
    /\ proc' = [proc EXCEPT
          !.signals = @ + 1,
          !.dbHandler = @ \/ sig = "SIGINT",
          !.server = IF @ = "listening" THEN "closing" ELSE @,
          !.closeOk = @ \/ proc.server = "listening",
          !.closeErr = @ \/ proc.server # "listening",
          !.timer = TRUE]
    /\ UNCHANGED <<users, req, now, users0, resets>>

\* the last connection has ended: the server emits 'close' and the
\* callbacks of server.close run, the first without an error, a later one
\* with an error
ServerClosed ==
    /\ proc.exit = "none" /\ proc.server = "closing" /\ OpenRequests = {}
    /\ proc' = IF proc.closeErr
               THEN Exit([proc EXCEPT !.server = "closed", !.closeOk = FALSE,
                                      !.closeErr = FALSE,
                                      !.shutdown = "disconnect"],
                         "1", "closeError")
               ELSE [proc EXCEPT !.server = "closed", !.closeOk = FALSE,
                                 !.shutdown = "disconnect"]
    /\ UNCHANGED <<users, req, now, users0, resets>>

\* the callback of a server.close that was called after the server had
\* closed: if (err) process.exit(1)
CloseError ==
    /\ proc.exit = "none" /\ proc.server = "closed" /\ proc.closeErr
    /\ proc' = Exit([proc EXCEPT !.closeErr = FALSE], "1", "closeError")
    /\ UNCHANGED <<users, req, now, users0, resets>>

\* await mongoose.disconnect() in the callback answers, or rejects and is
\* caught; then process.exit(0)
ShutdownDisconnected ==
    /\ proc.exit = "none" /\ proc.shutdown = "disconnect"
    /\ \E db \in {"disconnected", proc.db} :
          proc' = Exit([proc EXCEPT !.shutdown = "done", !.db = db],
                       "0", "gracefulShutdown")
    /\ UNCHANGED <<users, req, now, users0, resets>>

\* await disconnectDB() in the SIGINT listener of config/database.ts
\* answers; then process.exit(0)
DatabaseListenerDisconnected ==
    /\ proc.exit = "none" /\ proc.dbHandler
    /\ \E db \in {"disconnected", proc.db} :
          proc' = Exit([proc EXCEPT !.dbHandler = FALSE, !.db = db],
                       "0", "databaseListener")
    /\ UNCHANGED <<users, req, now, users0, resets>>

\* the 10 second timer of gracefulShutdown fires: process.exit(1)
ForceTimer ==
    /\ proc.exit = "none" /\ proc.timer
    /\ proc' = Exit([proc EXCEPT !.timer = FALSE], "1", "timer")
    /\ UNCHANGED <<users, req, now, users0, resets>>

\* accounts as an earlier login left them, one of them deactivated since
SeedU1 == [id |-> 1, uid |-> "u1", email |-> "a@x", displayName |-> "N1",
           photoURL |-> "P1", role |-> "user", isActive |-> TRUE,
           lastLoginAt |-> 0]

SeedStores == { {}, {SeedU1}, {[SeedU1 EXCEPT !.isActive = FALSE]} }

Init ==
    /\ users \in SeedStores
    /\ users0 = users
    /\ req = [s \in Slots |-> Idle]
    /\ now = 1
    /\ resets = 0
    /\ proc = Running

(***************************************************************************)
(* SpecParse: one authenticateToken request with any header                *)
(***************************************************************************)
ParseAtoms == {Prefix, "bearer ", "Basic ", "atU1", "idA1", "junk"}

RECURSIVE SeqsUpTo(_, _)
SeqsUpTo(S, n) ==
    IF n = 0 THEN {<<>>}
    ELSE LET shorter == SeqsUpTo(S, n - 1) IN
         shorter \cup {Append(q, a) : q \in shorter, a \in S}

ParseHeaders ==
    {NoHeader} \cup
    {[present |-> TRUE, atoms |-> q] : q \in SeqsUpTo(ParseAtoms, MaxHeaderLen)}

NextParse ==
    \/ \E h \in ParseHeaders : AuthenticateTokenBegin(1, h)
    \/ AuthenticateTokenLocalFind(1)
    \/ AuthenticateTokenVerified(1)
    \/ AuthenticateTokenFind(1)
    \/ AuthenticateTokenCreate(1)
    \/ AuthenticateTokenUpdate(1)
    \/ Tick

SpecParse == Init /\ [][NextParse]_vars

(***************************************************************************)
(* Spec: requests of the four entry points, interleaved at their awaits    *)
(* within one instant of the clock                                         *)
(***************************************************************************)
RaceTokens == {"idA1", "idB2", "idExp", "atU1", "rtU1"}

Headers == {NoHeader} \cup {Bearer(t) : t \in RaceTokens}

\* the idToken of a request body
BodyTokens == {<<>>, <<"idB1">>, <<"idExp">>}

Next ==
    \/ \E s \in Slots :
          \/ \E h \in Headers : AuthenticateTokenBegin(s, h)
          \/ AuthenticateTokenLocalFind(s)
          \/ AuthenticateTokenVerified(s)
          \/ AuthenticateTokenFind(s)
          \/ AuthenticateTokenCreate(s)
          \/ AuthenticateTokenUpdate(s)
          \/ \E h \in Headers : AuthenticateFirebaseUserBegin(s, h)
          \/ AuthenticateFirebaseUserVerified(s)
          \/ AuthenticateFirebaseUserFind(s)
          \/ AuthenticateFirebaseUserCreate(s)
          \/ AuthenticateFirebaseUserUpdate(s)
          \/ \E t \in BodyTokens : LoginBegin(s, t)
          \/ LoginVerified(s)
          \/ LoginFind(s)
          \/ LoginCreate(s)
          \/ LoginUpdate(s)
          \/ \E t \in BodyTokens : TokenBegin(s, t)
          \/ TokenVerified(s)
          \/ TokenFind(s)
          \/ TokenCreate(s)
          \/ TokenUpdate(s)
          \/ Reset(s)

Spec == Init /\ [][Next]_vars

(***************************************************************************)
(* SpecSeq: two authenticateToken requests, the second begun when the      *)
(* first has ended                                                         *)
(***************************************************************************)
SeqHeaders == {NoHeader} \cup {Bearer(t) : t \in Tokens}

Ended(s) == req[s].pc \in {"done", "hung"}

NextSeq ==
    \/ \E h \in SeqHeaders : AuthenticateTokenBegin(1, h)
    \/ Ended(1) /\ \E h \in SeqHeaders : AuthenticateTokenBegin(2, h)
    \/ \E s \in Slots :
          \/ AuthenticateTokenLocalFind(s)
          \/ AuthenticateTokenVerified(s)
          \/ AuthenticateTokenFind(s)
          \/ AuthenticateTokenCreate(s)
          \/ AuthenticateTokenUpdate(s)
    \/ Tick

SpecSeq == Init /\ [][NextSeq]_vars

(***************************************************************************)
(* SpecApi: requests to the users router, the admin router, POST           *)
(* /auth/login and POST /auth/token, interleaved, while roles are changed  *)
(* in the collection                                                       *)
(***************************************************************************)
ApiHeaders == {Bearer(t) : t \in {"atU1", "idB1", "idN1"}}

ApiBodyTokens == {<<"idB1">>, <<"idN1">>}

Routers == {"users", "admin"}

NextApi ==
    \/ \E s \in Slots :
          \/ \E h \in ApiHeaders : AuthenticateTokenBegin(s, h)
          \/ AuthenticateTokenLocalFind(s)
          \/ AuthenticateTokenVerified(s)
          \/ AuthenticateTokenFind(s)
          \/ AuthenticateTokenCreate(s)
          \/ AuthenticateTokenUpdate(s)
          \/ \E router \in Routers : RequireActiveUserNext(s, router)
          \/ RequireAdminNext(s)
          \/ \E m \in GateAccounts : RequireActiveUserAlone(s, m)
          \/ \E m \in GateAccounts : RequireAdminAlone(s, m)
          \/ \E body \in ProfileBodies : UpdateProfileBegin(s, body)
          \/ UpdateProfileSave(s)
          \/ \E userId \in UserIds : ToggleStatusBegin(s, userId)
          \/ ToggleStatusFind(s)
          \/ ToggleStatusSave(s)
          \/ \E t \in ApiBodyTokens : LoginBegin(s, t)
          \/ LoginVerified(s)
          \/ LoginFind(s)
          \/ LoginCreate(s)
          \/ LoginUpdate(s)
          \/ \E t \in ApiBodyTokens : TokenBegin(s, t)
          \/ TokenVerified(s)
          \/ TokenFind(s)
          \/ TokenCreate(s)
          \/ TokenUpdate(s)
    \/ \E role \in Roles : SetRole("u1", role)

SpecApi == Init /\ [][NextApi]_vars

(***************************************************************************)
(* SpecVerify: authenticateFirebaseUser requests, of the Express API and   *)
(* of the Functions API, interleaved                                       *)
(***************************************************************************)
NextVerify ==
    \/ \E s \in Slots :
          \/ \E h \in SeqHeaders : AuthenticateFirebaseUserBegin(s, h)
          \/ AuthenticateFirebaseUserVerified(s)
          \/ AuthenticateFirebaseUserFind(s)
          \/ AuthenticateFirebaseUserCreate(s)
          \/ AuthenticateFirebaseUserUpdate(s)
          \/ \E h \in SeqHeaders : FunctionsAuthenticateFirebaseUserBegin(s, h)
          \/ FunctionsAuthenticateFirebaseUserVerified(s)

SpecVerify == Init /\ [][NextVerify]_vars

(***************************************************************************)
(* SpecMint: POST /auth/token issues access tokens, authenticateToken is   *)
(* given them, or an identity token, as Bearer credentials; time passes    *)
(* and accounts are deactivated and reactivated meanwhile                  *)
(***************************************************************************)
MintBodyTokens == {<<"idA1">>, <<"idB2">>}

MintHeaders == {Bearer("idA1")}

\* a request with the access token that the request of slot t was sent
AuthenticateTokenPresent(s, t) ==
    /\ req[t].accessToken # ""
    /\ AuthenticateTokenBegin(s, Bearer(req[t].accessToken))

NextMint ==
    \/ \E s \in Slots :
          \/ \E t \in MintBodyTokens : TokenBegin(s, t)
          \/ TokenVerified(s)
          \/ TokenFind(s)
          \/ TokenCreate(s)
          \/ TokenUpdate(s)
          \/ \E t \in Slots : AuthenticateTokenPresent(s, t)
          \/ \E h \in MintHeaders : AuthenticateTokenBegin(s, h)
          \/ AuthenticateTokenLocalFind(s)
          \/ AuthenticateTokenVerified(s)
          \/ AuthenticateTokenFind(s)
          \/ AuthenticateTokenCreate(s)
          \/ AuthenticateTokenUpdate(s)
    \/ \E uid \in {"u1", "u2"} : \E flag \in BOOLEAN : SetActive(uid, flag)
    \/ Tick

SpecMint == Init /\ [][NextMint]_vars

(***************************************************************************)
(* SpecRoles: the operations of the API that write accounts, and the two   *)
(* routers, on a store that may hold an administrator from the start       *)
(***************************************************************************)
SeedAdmin == [SeedU1 EXCEPT !.role = "admin"]

InitRoles ==
    /\ users \in SeedStores \cup {{SeedAdmin}}
    /\ users0 = users
    /\ req = [s \in Slots |-> Idle]
    /\ now = 1
    /\ resets = 0
    /\ proc = Running

RolesHeaders == {Bearer(t) : t \in {"atU1", "idB1"}}

RolesBodyTokens == {<<"idB1">>}

NextRoles ==
    \E s \in Slots :
        \/ \E h \in RolesHeaders : AuthenticateTokenBegin(s, h)
        \/ AuthenticateTokenLocalFind(s)
        \/ AuthenticateTokenVerified(s)
        \/ AuthenticateTokenFind(s)
        \/ AuthenticateTokenCreate(s)
        \/ AuthenticateTokenUpdate(s)
        \/ \E router \in Routers : RequireActiveUserNext(s, router)
        \/ RequireAdminNext(s)
        \/ \E body \in ProfileBodies : UpdateProfileBegin(s, body)
        \/ UpdateProfileSave(s)
        \/ \E userId \in UserIds : ToggleStatusBegin(s, userId)
        \/ ToggleStatusFind(s)
        \/ ToggleStatusSave(s)
        \/ \E h \in RolesHeaders : AuthenticateFirebaseUserBegin(s, h)
        \/ AuthenticateFirebaseUserVerified(s)
        \/ AuthenticateFirebaseUserFind(s)
        \/ AuthenticateFirebaseUserCreate(s)
        \/ AuthenticateFirebaseUserUpdate(s)
        \/ \E t \in RolesBodyTokens : LoginBegin(s, t)
        \/ LoginVerified(s)
        \/ LoginFind(s)
        \/ LoginCreate(s)
        \/ LoginUpdate(s)
        \/ \E t \in RolesBodyTokens : TokenBegin(s, t)
        \/ TokenVerified(s)
        \/ TokenFind(s)
        \/ TokenCreate(s)
        \/ TokenUpdate(s)

SpecRoles == InitRoles /\ [][NextRoles]_vars

(***************************************************************************)
(* SpecShutdown: the process handles authenticateToken requests and is     *)
(* sent termination signals; a request is accepted while the server        *)
(* listens, and is handled while the process runs                          *)
(***************************************************************************)
ShutdownHeaders == {Bearer(t) : t \in {"atU1", "rtU1", "idA1"}}

NextShutdown ==
    \/ /\ proc.exit = "none"
       /\ \E s \in Slots :
             \/ /\ proc.server = "listening"
                /\ \E h \in ShutdownHeaders : AuthenticateTokenBegin(s, h)
             \/ AuthenticateTokenLocalFind(s)
             \/ AuthenticateTokenVerified(s)
             \/ AuthenticateTokenFind(s)
             \/ AuthenticateTokenCreate(s)
             \/ AuthenticateTokenUpdate(s)
    \/ \E sig \in Signals : Signal(sig)
    \/ ServerClosed
    \/ CloseError
    \/ ShutdownDisconnected
    \/ DatabaseListenerDisconnected
    \/ ForceTimer

SpecShutdown == Init /\ [][NextShutdown]_vars

(***************************************************************************)
(* Properties                                                              *)
(***************************************************************************)
NoCollaborator(r) ==
    r.jwtCalls = 0 /\ r.idpCalls = 0 /\ r.reads = 0 /\ r.writes = 0

Rejected(r, status, error) ==
    /\ r.pc = "done"
    /\ r.res = [status |-> status, error |-> error]
    /\ r.nextCalled = 0

\* C1: an authenticateToken request whose Authorization header is absent or
\* does not begin with the exact prefix 'Bearer ' is answered 401
\* UNAUTHORIZED, one whose header is the prefix and nothing else is
\* answered 401 INVALID_TOKEN; in both cases next() is not called and
\* jwt.verify, verifyIdToken and the store are not used.
C1_HeaderRejected ==
    \A s \in Slots :
        LET r == req[s] IN
        r.mw = "authenticateToken" =>
            /\ (~r.header.present \/ r.header.atoms = <<>>
                    \/ r.header.atoms[1] # "Bearer ")
                 => Rejected(r, 401, "UNAUTHORIZED") /\ NoCollaborator(r)
            /\ (r.header.present /\ r.header.atoms = <<"Bearer ">>)
                 => Rejected(r, 401, "INVALID_TOKEN") /\ NoCollaborator(r)

\* a header with the prefix in lower case, followed by a token the local
\* verifier would accept, has been refused
C1_Witness ==
    /\ req[1].header = [present |-> TRUE, atoms |-> <<"bearer ", "atU1">>]
    /\ Rejected(req[1], 401, "UNAUTHORIZED")

\* next() was called, once, and nothing was sent
Authenticated(r) ==
    r.pc = "done" /\ r.nextCalled = 1 /\ r.res = NoRes

\* the step in which the lookup of the local path answers for slot s
LocalLookupAnswers(s) ==
    /\ req[s].mw = "authenticateToken" /\ req[s].pc = "locFind"
    /\ req'[s].pc # "locFind"
    /\ req'[s].storeErr = ""

\* C2: when the bearer token verifies as a local token of type
\* 'access_token' and the store, answering the lookup, holds no account for
\* its uid or only a deactivated one, the request is answered 401
\* USER_NOT_FOUND, next() is not called, and verifyIdToken is not called:
\* the lookup is the only thing done and the request does not go on to the
\* external path.
C2_LocalTokenNoAccount ==
    /\ [](\A s \in Slots :
            (req[s].mw = "authenticateToken" /\ req[s].decoded.ok
                /\ req[s].decoded.type = "access_token"
                /\ req[s].storeErr = "")
            => req[s].pc \in {"locFind", "done"} /\ req[s].idpCalls = 0)
    /\ [][\A s \in Slots :
            (LocalLookupAnswers(s)
                /\ ~\E d \in users : d.uid = req[s].decoded.uid /\ d.isActive)
            => /\ Rejected(req'[s], 401, "USER_NOT_FOUND")
               /\ req'[s].idpCalls = 0
               /\ req'[s].reads = 1 /\ req'[s].writes = 0
               /\ users' = users]_vars

\* a local access token for u1 was refused while u1's account is there but
\* deactivated
C2_Witness ==
    \E s \in Slots :
        /\ req[s].mw = "authenticateToken"
        /\ req[s].decoded.ok /\ req[s].decoded.type = "access_token"
        /\ Rejected(req[s], 401, "USER_NOT_FOUND")
        /\ \E d \in users : d.uid = req[s].decoded.uid /\ ~d.isActive

\* C3: when the bearer token verifies as a local token of type
\* 'access_token' and an active account exists for its uid, next() is
\* called with that account attached to the request; the store is read once
\* and not written, and verifyIdToken is not called.
C3_LocalTokenActiveAccount ==
    [][\A s \in Slots :
        (LocalLookupAnswers(s)
            /\ \E d \in users : d.uid = req[s].decoded.uid /\ d.isActive)
        => /\ Authenticated(req'[s])
           /\ req'[s].mongoUser \in users
           /\ req'[s].mongoUser.uid = req[s].decoded.uid
           /\ req'[s].mongoUser.isActive
           /\ req'[s].user.uid = req[s].decoded.uid
           /\ req'[s].reads = 1 /\ req'[s].writes = 0
           /\ req'[s].idpCalls = 0
           /\ users' = users]_vars

\* a local access token has authenticated its request with no call of the
\* identity provider
C3_Witness ==
    \E s \in Slots :
        /\ req[s].mw = "authenticateToken"
        /\ req[s].decoded.ok /\ req[s].decoded.type = "access_token"
        /\ Authenticated(req[s])
        /\ req[s].mongoUser \in users
        /\ req[s].idpCalls = 0

\* C4: a token that jwt.verify accepts but whose type is not 'access_token'
\* is not accepted as local: verifyIdToken is called with the raw token and
\* the request goes on to the external path.
C4_OtherTypeFallsThrough ==
    \A s \in Slots :
        (req[s].mw = "authenticateToken" /\ req[s].decoded.ok
            /\ req[s].decoded.type # "access_token")
        => /\ req[s].idpCalls = 1
           /\ req[s].idpArg = req[s].token
           /\ req[s].pc \in {"verify", "find", "create", "update", "done"}

\* jwt.verify refused the token of an authenticateToken request
LocalFailed(r) ==
    r.mw = "authenticateToken" /\ r.jwtCalls = 1 /\ ~r.decoded.ok

ExternalKinds == {"INVALID_TOKEN", "TOKEN_EXPIRED"}

C6_KindFollowsProviderError ==
    \A s \in Slots :
        LET r == req[s] IN
        (LocalFailed(r) /\ r.pc = "done" /\ r.idpCalls = 1 /\ ~r.claims.ok)
        => Rejected(r, 401,
                IF Includes(ToLowerCase(r.claims.msg), "expired")
                THEN "TOKEN_EXPIRED" ELSE "INVALID_TOKEN")

\* the accounts of a store that have the uid
AccountsOf(store, uid) == {d \in store : d.uid = uid}

\* the claims carry an email and no account of the store has it
EmailFree(store, claims) ==
    claims.email # "" /\ ~\E d \in store : d.email = Lower(claims.email)

\* the step in which the lookup of the external path answers for slot s
ExternalLookupAnswers(s) ==
    /\ req[s].mw = "authenticateToken" /\ req[s].pc = "find"
    /\ req'[s].pc # "find"
    /\ req'[s].storeErr # "unavailable"

\* the step in which save() of the new account answers for slot s
SaveAnswers(s) ==
    /\ req[s].mw = "authenticateToken" /\ req[s].pc = "create"
    /\ req'[s].pc # "create"
    /\ req'[s].storeErr # "unavailable"

\* C7 as the claim states it: when the provider accepts the token of the
\* first request and the store it starts from holds no account for the
\* verified uid, the account is created and next() is called with it.
C7_AsClaimed ==
    LET r == req[1] IN
    (r.mw = "authenticateToken" /\ r.pc = "done" /\ r.claims.ok
        /\ r.storeErr # "unavailable"
        /\ AccountsOf(users0, r.claims.uid) = {})
    => /\ Authenticated(r)
       /\ r.created
       /\ AccountsOf(users, r.claims.uid) = {r.mongoUser}

\* C7: when the provider accepts the token, the store holds no account for
\* the verified uid, and the claims carry an email that no account of the
\* store has, exactly one account is created, with role user, active and
\* with its last login set, and next() is called with that account
\* attached to the request.
C7_AccountCreated ==
    [][\A s \in Slots :
        /\ (ExternalLookupAnswers(s)
                /\ AccountsOf(users, req[s].claims.uid) = {})
           => /\ req'[s].pc = "create"
              /\ req'[s].mongoUser.uid = req[s].claims.uid
              /\ users' = users
        /\ (SaveAnswers(s)
                /\ AccountsOf(users, req[s].claims.uid) = {}
                /\ EmailFree(users, req[s].claims))
           => /\ Authenticated(req'[s])
              /\ req'[s].created
              /\ users' = users \cup {req'[s].mongoUser}
              /\ Cardinality(users') = Cardinality(users) + 1
              /\ AccountsOf(users', req[s].claims.uid) = {req'[s].mongoUser}
              /\ req'[s].mongoUser.role = "user"
              /\ req'[s].mongoUser.isActive
              /\ req'[s].mongoUser.lastLoginAt \in 1..now
              /\ req'[s].user.uid = req[s].claims.uid]_vars

\* the second request has created the account of u1 after the first created
\* that of u2
C7_Witness ==
    /\ req[1].created /\ Authenticated(req[1]) /\ req[1].mongoUser.uid = "u2"
    /\ req[2].created /\ Authenticated(req[2]) /\ req[2].mongoUser.uid = "u1"
    /\ {req[1].mongoUser, req[2].mongoUser} \subseteq users

\* two authenticateToken requests, one after the other, with the same token
\* that the provider accepts, from a store without an account for its uid
SameTokenTwice ==
    /\ req[1].mw = "authenticateToken" /\ req[1].pc = "done"
    /\ req[2].mw = "authenticateToken" /\ req[2].pc = "done"
    /\ req[1].token = req[2].token
    /\ req[1].claims.ok /\ req[2].claims.ok
    /\ req[1].storeErr # "unavailable" /\ req[2].storeErr # "unavailable"
    /\ AccountsOf(users0, req[1].claims.uid) = {}

\* both requests are authenticated, the first created the one account of
\* the uid, the second changed its last login and nothing else
OneAccountSecondTouches ==
    /\ Authenticated(req[1]) /\ Authenticated(req[2])
    /\ req[1].created /\ ~req[2].created
    /\ req[2].writes = 1 /\ req[2].dirty \subseteq {"lastLoginAt"}
    /\ req[2].mongoUser.lastLoginAt >= req[1].mongoUser.lastLoginAt
    /\ AccountsOf(users, req[1].claims.uid) = {req[2].mongoUser}
    /\ req[2].mongoUser = [req[1].mongoUser EXCEPT
                              !.lastLoginAt = req[2].mongoUser.lastLoginAt]
    /\ users = users0 \cup {req[2].mongoUser}

\* C8 as the claim states it: two requests in sequence with the same valid
\* external token, from a store without an account for its uid, both
\* succeed, leave one account for the uid, and the second only advances the
\* last login.
C8_AsClaimed == SameTokenTwice => OneAccountSecondTouches

\* C8: two authenticateToken requests in sequence with the same valid
\* external token whose claims carry an email that no account has, from a
\* store without an account for its uid, both call next(); the store ends
\* with exactly one account for the uid, created by the first request, and
\* the second request writes its last login and nothing else.
C8_SequentialIdempotent ==
    (SameTokenTwice /\ EmailFree(users0, req[1].claims))
    => OneAccountSecondTouches

\* the second request found the account the first created and recorded a
\* later login on it
C8_Witness ==
    /\ SameTokenTwice /\ OneAccountSecondTouches
    /\ req[2].mongoUser.lastLoginAt > req[1].mongoUser.lastLoginAt

\* C9: whatever the interleaving of authenticateToken,
\* authenticateFirebaseUser, POST /auth/login and POST /auth/token requests,
\* the store holds at most one account for a uid.
C9_OneAccountPerUid ==
    \A d \in users : \A e \in users : d.uid = e.uid => d = e

\* two requests of different entry points both looked up u1, both found no
\* active account and both saved a new one: one save was accepted, the
\* other refused
C9_Witness ==
    \E s \in Slots : \E t \in Slots :
        /\ req[s].mw = "authenticateToken" /\ req[t].mw = "login"
        /\ req[s].claims.uid = "u1" /\ req[t].claims.uid = "u1"
        /\ req[s].created /\ ~req[t].created
        /\ req[t].writes = 1 /\ req[t].dirty = {}
        /\ req[t].storeErr = "E11000"
        /\ users0 = {}

\* C10: of two authenticateToken requests that race to create the account
\* of the same new uid, the one whose save is refused by the unique index
\* looks the account up again and is authenticated like the other: both
\* call next() and neither is answered an error.
C10_RaceLoserAuthenticated ==
    \A s \in Slots : \A t \in Slots :
        (/\ s # t
         /\ req[s].mw = "authenticateToken" /\ req[t].mw = "authenticateToken"
         /\ req[s].token = req[t].token
         /\ AccountsOf(users0, req[s].claims.uid) = {}
         /\ req[s].created /\ req[s].pc = "done"
         /\ req[t].storeErr = "E11000" /\ req[t].pc = "done")
        => Authenticated(req[s]) /\ Authenticated(req[t])

\* the step in which the save of an existing account, loaded by an
\* external-token login of slot s, is accepted and the login succeeds
LoginOfExistingSaved(s) ==
    /\ req[s].mw \in {"authenticateToken", "login", "token"}
    /\ req[s].pc = "update" /\ req'[s].pc = "done"
    /\ req'[s].storeErr = ""
    /\ \/ req'[s].mw = "authenticateToken" /\ req'[s].nextCalled = 1
       \/ req'[s].res = [status |-> 200, error |-> ""]

\* the stored document of an _id
Stored(store, id) == CHOOSE d \in store : d.id = id

\* C11: a successful external-token login of an existing account, through
\* authenticateToken, POST /auth/login or POST /auth/token, whose claims
\* carry no display name, no avatar or no email leaves the stored display
\* name, avatar or email as the store had it before the save.
C11_NoBlanking ==
    [][\A s \in Slots :
        LoginOfExistingSaved(s) =>
            LET c == req[s].claims
                id == req[s].mongoUser.id
            IN /\ \E d \in users : d.id = id
               /\ \E d \in users' : d.id = id
               /\ c.name = "" =>
                    Stored(users', id).displayName = Stored(users, id).displayName
               /\ c.picture = "" =>
                    Stored(users', id).photoURL = Stored(users, id).photoURL
               /\ c.email = "" =>
                    Stored(users', id).email = Stored(users, id).email]_vars

\* POST /auth/login with a token whose claims carry neither email nor name
\* nor avatar has succeeded for the account of u1, which has its email, name
\* and avatar still and a new last login
C11_Witness ==
    \E s \in Slots :
        /\ req[s].mw = "login" /\ req[s].token = <<"idN1">>
        /\ req[s].res = [status |-> 200, error |-> ""]
        /\ req[s].dirty = {"lastLoginAt"}
        /\ \E d \in users :
              /\ d.uid = "u1" /\ d.email = "a@x" /\ d.displayName = "N1"
              /\ d.photoURL = "P1" /\ d.lastLoginAt = 1

\* slot s has authenticated an account that existed, by an external token,
\* through authenticateToken or POST /auth/login, and no other request is
\* under way
ExternalLoginOfExistingDone(s) ==
    /\ req[s].claims.ok /\ ~req[s].created /\ req[s].pc = "done"
    /\ \/ req[s].mw = "authenticateToken" /\ req[s].nextCalled = 1
                                           /\ req[s].res = NoRes
       \/ req[s].mw = "login" /\ req[s].res = [status |-> 200, error |-> ""]
    /\ \A t \in Slots \ {s} : req[t].pc = "idle"

\* C12: after a successful external-token authentication of an existing
\* account, through authenticateToken or POST /auth/login, the stored email,
\* display name and avatar are those of the claims wherever the claims
\* carry one (as the schema stores them: email in lower case, name trimmed).
C12_ClaimsSynced ==
    \A s \in Slots :
        ExternalLoginOfExistingDone(s) =>
            \E d \in users :
                /\ d.uid = req[s].claims.uid
                /\ req[s].claims.email # "" =>
                        d.email = Lower(req[s].claims.email)
                /\ req[s].claims.name # "" =>
                        d.displayName = Trim(req[s].claims.name)
                /\ req[s].claims.picture # "" =>
                        d.photoURL = req[s].claims.picture

\* C13: when a store operation of an authenticateToken request throws (the
\* lookup of the local path, or the lookup, save or update of the external
\* path), the request is answered 401 AUTHENTICATION_FAILED, and a failed
\* lookup of the local path does not make the request try the identity
\* provider.
C13_StoreFailureReported ==
    \A s \in Slots :
        (req[s].mw = "authenticateToken" /\ req[s].storeErr = "unavailable")
        => /\ Rejected(req[s], 401, "AUTHENTICATION_FAILED")
           /\ req[s].decoded.ok => req[s].idpCalls = 0

\* a request of the admin router that authenticateToken accepted by its
\* local access token, and on which requireAdmin has decided
LocalTokenAtAdminGate(r) ==
    /\ r.mw = "authenticateToken" /\ r.route = "admin"
    /\ r.decoded.ok /\ r.decoded.type = "access_token"
    /\ r.pc # "requireAdmin"

\* requireAdmin called next(), after authenticateToken and requireActiveUser
PassedAdminGate(r) == r.nextCalled = 3

\* requireAdmin answered 403 FORBIDDEN and did not call next()
RefusedAtAdminGate(r) ==
    /\ r.pc = "done" /\ r.res = [status |-> 403, error |-> "FORBIDDEN"]
    /\ r.nextCalled = 2

ActiveGateRuns(s) ==
    \/ req[s].pc = "idle" /\ req'[s].mw = "requireActiveUser"
    \/ req[s].mw = "authenticateToken" /\ req[s].route = ""
                                        /\ req'[s].route # ""

\* the step in which requireAdmin runs on the request of slot s, called
\* directly or after requireActiveUser
AdminGateRuns(s) ==
    \/ req[s].pc = "idle" /\ req'[s].mw = "requireAdmin"
    \/ req[s].pc = "requireAdmin" /\ req'[s].pc # "requireAdmin"

\* what the step of a gate on slot s did, n being the calls of next() before
\* it: the answer (status, error) and no next(), or next() and no answer;
\* in either case nothing read from or written to the store
GateAnswered(s, n, status, error) ==
    /\ req'[s].pc = "done"
    /\ req'[s].res = [status |-> status, error |-> error]
    /\ req'[s].nextCalled = n

GatePassed(s, n) ==
    /\ req'[s].res = NoRes
    /\ req'[s].nextCalled = n + 1

GateLeavesStore(s) ==
    /\ users' = users
    /\ req'[s].reads = (IF req[s].pc = "idle" THEN 0 ELSE req[s].reads)
    /\ req'[s].writes = (IF req[s].pc = "idle" THEN 0 ELSE req[s].writes)
    /\ req[s].pc # "idle" => req'[s].mongoUser = req[s].mongoUser

NextCallsBefore(s) == IF req[s].pc = "idle" THEN 0 ELSE req[s].nextCalled

\* C15: requireActiveUser answers 401 UNAUTHORIZED when the request carries
\* no account, 403 ACCOUNT_DISABLED when the account it carries is not
\* active, and otherwise calls next() and sends nothing; it does not read
\* or write the store and leaves every account as it is.
C15_RequireActiveUser ==
    [][\A s \in Slots :
        ActiveGateRuns(s) =>
            LET m == req'[s].mongoUser
                n == NextCallsBefore(s)
            IN /\ GateLeavesStore(s)
               /\ m = NoUser => GateAnswered(s, n, 401, "UNAUTHORIZED")
               /\ (m # NoUser /\ ~m.isActive)
                     => GateAnswered(s, n, 403, "ACCOUNT_DISABLED")
               /\ (m # NoUser /\ m.isActive) => GatePassed(s, n)]_vars

\* requireActiveUser has refused a request that carries a deactivated
\* account, and has let through one that authenticateToken authenticated
C15_Witness ==
    \E s \in Slots : \E t \in Slots :
        /\ req[s].mw = "requireActiveUser"
        /\ req[s].mongoUser # NoUser /\ ~req[s].mongoUser.isActive
        /\ req[s].res = [status |-> 403, error |-> "ACCOUNT_DISABLED"]
        /\ req[s].nextCalled = 0
        /\ req[t].mw = "authenticateToken" /\ req[t].route = "users"
        /\ req[t].pc = "handler" /\ req[t].nextCalled = 2

\* C16: requireAdmin answers 401 UNAUTHORIZED when the request carries no
\* account, 403 FORBIDDEN when the role of the account it carries is not
\* admin, and calls next(), sending nothing, exactly when the role is
\* admin; it does not read or write the store and leaves every account as
\* it is.
C16_RequireAdmin ==
    [][\A s \in Slots :
        AdminGateRuns(s) =>
            LET m == req'[s].mongoUser
                n == NextCallsBefore(s)
            IN /\ GateLeavesStore(s)
               /\ m = NoUser => GateAnswered(s, n, 401, "UNAUTHORIZED")
               /\ (m # NoUser /\ m.role # "admin")
                     => GateAnswered(s, n, 403, "FORBIDDEN")
               /\ GatePassed(s, n) <=> (m # NoUser /\ m.role = "admin")]_vars

\* requireAdmin has refused a request that carries an account of role user,
\* and has let through one that carries an admin's account
C16_Witness ==
    \E s \in Slots : \E t \in Slots :
        /\ req[s].mw = "requireAdmin"
        /\ req[s].mongoUser # NoUser /\ req[s].mongoUser.role = "user"
        /\ req[s].res = [status |-> 403, error |-> "FORBIDDEN"]
        /\ req[s].nextCalled = 0
        /\ req[t].mw = "requireAdmin" /\ req[t].mongoUser.role = "admin"
        /\ req[t].res = NoRes /\ req[t].nextCalled = 1

\* the step in which the save of toggle-status on slot s is accepted
ToggleSaved(s) ==
    /\ req[s].route = "admin" /\ req[s].pc = "toggleSave"
    /\ req'[s].res = [status |-> 200, error |-> ""]

\* C17: an account that is in the store is in the store after every step of
\* authenticateToken, the gates, POST /auth/login, POST /auth/token, PATCH
\* /users/update and PATCH toggle-status, with the same uid; a toggle-status
\* that is saved changes the active flag of its account and nothing else
\* in the store.
C17_AccountsNeverRemoved ==
    [][/\ \A d \in users : \E e \in users' : e.id = d.id /\ e.uid = d.uid
       /\ \A s \in Slots :
            ToggleSaved(s) =>
                /\ Cardinality(users') = Cardinality(users)
                /\ \A d \in users :
                     \E e \in users' :
                        /\ e.id = d.id
                        /\ e = [d EXCEPT !.isActive =
                                   IF d.id = req[s].target.id
                                   THEN req[s].target.isActive
                                   ELSE d.isActive]]_vars

\* toggle-status has deactivated the account of u1, which is in the store
\* still
C17_Witness ==
    \E s \in Slots :
        /\ req[s].route = "admin"
        /\ req[s].res = [status |-> 200, error |-> ""]
        /\ req[s].target.uid = "u1" /\ ~req[s].target.isActive
        /\ \E d \in users : d.uid = "u1" /\ ~d.isActive
        /\ \E d \in users0 : d.uid = "u1" /\ d.isActive

ExternalOnly == {"authenticateFirebaseUser", "functionsAuthenticateFirebaseUser"}

\* C18 as the claim states it: a request of authenticateFirebaseUser, in
\* either API, does not call jwt.verify and does not read or write the
\* store, and when it succeeds it carries the verified claims and nothing
\* else.
C18_AsClaimed ==
    \A s \in Slots :
        req[s].mw \in ExternalOnly =>
            /\ req[s].jwtCalls = 0
            /\ req[s].reads = 0 /\ req[s].writes = 0
            /\ req[s].nextCalled = 1 =>
                 /\ req[s].user = InfoOf(req[s].claims)
                 /\ req[s].mongoUser = NoUser

\* C18: authenticateFirebaseUser calls jwt.verify in neither API.  In the
\* Functions API it does not read or write the store, and on success it
\* attaches the verified claims, and no account, and calls next().  In the
\* Express API it looks the account of the verified uid up and saves it,
\* new or with a new last login, and on success it attaches the claims and
\* that account and calls next().
C18_ExternalOnly ==
    /\ [](\A s \in Slots :
            LET r == req[s] IN
            /\ r.mw \in ExternalOnly => r.jwtCalls = 0
            /\ r.mw = "functionsAuthenticateFirebaseUser" =>
                 /\ r.reads = 0 /\ r.writes = 0 /\ r.mongoUser = NoUser
                 /\ (r.pc = "done" /\ r.claims.ok) =>
                       /\ r.nextCalled = 1 /\ r.res = NoRes
                       /\ r.user = InfoOf(r.claims)
                 /\ r.nextCalled = 1 => r.claims.ok
            /\ (r.mw = "authenticateFirebaseUser" /\ r.nextCalled = 1) =>
                 /\ r.claims.ok /\ r.res = NoRes
                 /\ r.user = InfoOf(r.claims)
                 /\ r.mongoUser.uid = r.claims.uid
                 /\ r.reads = 1 /\ r.writes = 1)
    /\ [][\A s \in Slots :
            (req'[s] # req[s] /\ req'[s].mw = "functionsAuthenticateFirebaseUser")
            => users' = users]_vars

\* the Functions API has let a request through that carries claims and no
\* account, and has left the store empty; the Express API has let one
\* through with the account it created
C18_Witness ==
    \E s \in Slots : \E t \in Slots :
        /\ req[s].mw = "functionsAuthenticateFirebaseUser"
        /\ req[s].nextCalled = 1 /\ req[s].user.uid = "u2"
        /\ req[s].mongoUser = NoUser
        /\ req[t].mw = "authenticateFirebaseUser"
        /\ req[t].nextCalled = 1 /\ req[t].created
        /\ req[t].mongoUser \in users
        /\ AccountsOf(users, "u2") = {}

\* an authenticateFirebaseUser request that got past the header checks and
\* then failed: the provider rejected the token, or the store rejected
FailedAfterHeader(r) ==
    /\ r.mw \in ExternalOnly /\ r.idpCalls = 1
    /\ r.pc = "done" /\ r.res # NoRes

\* the message of the error the catch block of such a request received
CaughtMessage(r) ==
    IF r.claims.ok THEN StoreMsg(r.storeErr) ELSE r.claims.msg

\* C19: an authenticateFirebaseUser request that fails after the header
\* checks is answered 401 and next() is not called; the kind is
\* TOKEN_EXPIRED when the lower-cased message of the error holds 'expired',
\* whether or not it holds 'invalid' too, otherwise INVALID_TOKEN when it
\* holds 'invalid', otherwise AUTHENTICATION_FAILED.
C19_FailureKinds ==
    \A s \in Slots :
        FailedAfterHeader(req[s]) =>
            LET lowered == ToLowerCase(CaughtMessage(req[s])) IN
            /\ req[s].res.status = 401
            /\ req[s].nextCalled = 0
            /\ Includes(lowered, "expired") =>
                   req[s].res.error = "TOKEN_EXPIRED"
            /\ (~Includes(lowered, "expired") /\ Includes(lowered, "invalid")) =>
                   req[s].res.error = "INVALID_TOKEN"
            /\ (~Includes(lowered, "expired") /\ ~Includes(lowered, "invalid")) =>
                   req[s].res.error = "AUTHENTICATION_FAILED"

\* a token whose rejection says both 'Invalid' and 'expired' was answered
\* TOKEN_EXPIRED by one API, and a store rejection was answered
\* AUTHENTICATION_FAILED by the other
C19_Witness ==
    \E s \in Slots : \E t \in Slots :
        /\ FailedAfterHeader(req[s])
        /\ req[s].mw = "functionsAuthenticateFirebaseUser"
        /\ req[s].idpArg = <<"idOld">>
        /\ Includes(ToLowerCase(CaughtMessage(req[s])), "invalid")
        /\ req[s].res = [status |-> 401, error |-> "TOKEN_EXPIRED"]
        /\ FailedAfterHeader(req[t])
        /\ req[t].mw = "authenticateFirebaseUser"
        /\ req[t].storeErr # ""
        /\ req[t].res = [status |-> 401, error |-> "AUTHENTICATION_FAILED"]

\* a POST /auth/token request that ended, whose external token the provider
\* verified, whose store was reachable, and whose subject id had a
\* deactivated account, and no other, when the request began and when it
\* ended
TokenForDeactivated(r) ==
    /\ r.mw = "token" /\ r.pc = "done"
    /\ r.claims.ok /\ r.storeErr # "unavailable"
    /\ AccountsOf(users, r.claims.uid) # {}
    /\ \A d \in AccountsOf(users, r.claims.uid) : ~d.isActive

\* C20: POST /auth/token with a valid external token whose account is
\* deactivated is answered 401 ACCOUNT_DISABLED and issues no token.
C20_DisabledAccountRefused ==
    \A s \in Slots :
        TokenForDeactivated(req[s]) =>
            /\ req[s].res = [status |-> 401, error |-> "ACCOUNT_DISABLED"]
            /\ req[s].issued = NoDecoded

\* the request of slot s begins, in this step, as an authenticateToken
\* request whose Bearer credential is the access token sent to slot t
PresentsTokenOf(s, t) ==
    /\ req[s].pc = "idle" /\ req'[s].mw = "authenticateToken"
    /\ req[t].accessToken # ""
    /\ req'[s].header = Bearer(req[t].accessToken)

\* an authenticateToken request on the local path with an issued token
LocalLookupOfIssued(s) ==
    /\ req[s].mw = "authenticateToken" /\ req[s].pc = "locFind"
    /\ req[s].token[1] \notin Tokens
    /\ req'[s] # req[s]

\* C21: an access token issued by POST /auth/token for subject s carries
\* type 'access_token' and uid s; given to authenticateToken before its
\* expiry, jwt.verify accepts it and the account of uid s is looked up
\* without a call to the identity provider; when that account is active and
\* the store answers, next() is called with that account attached.
C21_MintResolve ==
    /\ [](\A t \in Slots :
            req[t].accessToken # "" =>
                /\ req[t].issued.type = "access_token"
                /\ req[t].issued.uid = req[t].claims.uid)
    /\ [][\A s \in Slots : \A t \in Slots :
            (PresentsTokenOf(s, t) /\ now < req[t].issuedAt + ExpiresIn) =>
                /\ req'[s].pc = "locFind"
                /\ req'[s].decoded = req[t].issued
                /\ req'[s].idpCalls = 0]_vars
    /\ [][\A s \in Slots :
            (/\ LocalLookupOfIssued(s)
             /\ req'[s].storeErr = ""
             /\ \E d \in users : d.uid = req[s].decoded.uid /\ d.isActive) =>
                /\ req'[s].pc = "done" /\ req'[s].res = NoRes
                /\ req'[s].nextCalled = 1
                /\ req'[s].mongoUser \in users
                /\ req'[s].mongoUser.uid = req[s].decoded.uid
                /\ req'[s].idpCalls = 0]_vars

\* the token exchange created the account of u2 and issued a token; a
\* request with that token went through on the local path
C21_Witness ==
    \E s \in Slots : \E t \in Slots :
        /\ req[t].mw = "token" /\ req[t].created /\ req[t].accessToken # ""
        /\ req[s].mw = "authenticateToken" /\ req[s].pc = "done"
        /\ req[s].token = <<req[t].accessToken>>
        /\ req[s].nextCalled = 1 /\ req[s].idpCalls = 0
        /\ req[s].mongoUser.uid = "u2"

\* an authenticateToken request with an identity token the provider
\* verified, answered while the store was reachable and the only account of
\* the token's uid was a deactivated one
ExternalForDeactivated(r) ==
    /\ r.mw = "authenticateToken" /\ r.claims.ok
    /\ r.pc = "done" /\ r.storeErr # "unavailable"
    /\ AccountsOf(users, r.claims.uid) # {}
    /\ \A d \in AccountsOf(users, r.claims.uid) : ~d.isActive

\* C22: behind authenticateToken and requireActiveUser, a request with a
\* valid identity token of a subject whose account is deactivated is
\* answered 403 ACCOUNT_DISABLED.
C22_DisabledAnswered403 ==
    \A s \in Slots :
        ExternalForDeactivated(req[s]) =>
            req[s].res = [status |-> 403, error |-> "ACCOUNT_DISABLED"]

\* C23: an authenticateToken invocation that has run to its end has sent
\* exactly one error response and not called next(), or has called next()
\* exactly once and sent no response; it never ends with neither.
C23_ExactlyOneOutcome ==
    \A s \in Slots :
        req[s].mw = "authenticateToken" =>
            /\ req[s].pc # "hung"
            /\ req[s].pc = "done" =>
                 \/ req[s].res # NoRes /\ req[s].nextCalled = 0
                 \/ req[s].res = NoRes /\ req[s].nextCalled = 1

\* the handler of a route under /admin runs, or has run, for the request
AdminHandlerRuns(r) ==
    /\ r.route = "admin"
    /\ \/ r.pc \in {"handler", "toggleFind", "toggleSave"}
       \/ r.target # NoUser

\* C24: the handler of a route under /admin runs only for a request that
\* authenticateToken let through with an account attached that is active
\* and has role 'admin', and that both gates let through after it; a request
\* that a middleware of the chain answered never gets to the handler.
C24_AdminHandlersOnlyForAdmins ==
    /\ [](\A s \in Slots :
            AdminHandlerRuns(req[s]) =>
                /\ req[s].mw = "authenticateToken"
                /\ req[s].nextCalled = 3
                /\ req[s].mongoUser # NoUser
                /\ req[s].mongoUser.isActive
                /\ req[s].mongoUser.role = "admin")
    /\ [][\A s \in Slots :
            (req[s].route = "admin" /\ ~AdminHandlerRuns(req[s])
               /\ req[s].res # NoRes) =>
                ~AdminHandlerRuns(req'[s])]_vars

\* one request to the admin router got to the toggle-status handler, and
\* another was answered 403 FORBIDDEN by requireAdmin
C24_Witness ==
    \E s \in Slots : \E t \in Slots :
        /\ req[s].route = "admin" /\ req[s].pc = "toggleSave"
        /\ req[s].mongoUser.role = "admin"
        /\ req[t].route = "admin" /\ req[t].nextCalled = 2
        /\ req[t].res = [status |-> 403, error |-> "FORBIDDEN"]

\* the error kinds authenticateToken answers with
AuthenticationErrors ==
    {"UNAUTHORIZED", "INVALID_TOKEN", "TOKEN_EXPIRED", "USER_NOT_FOUND",
     "AUTHENTICATION_FAILED"}

\* C25: an authenticateToken invocation that ends with an error response
\* has not changed the store: a step of the invocation that changes an
\* account, or the set of accounts, is the step in which it calls next();
\* when the first request ends with an error and no other has begun, the
\* store is as it was at the start.
C25_FailureLeavesStore ==
    /\ [][\A s \in Slots :
            (req[s].mw = "authenticateToken" /\ req'[s] # req[s]
               /\ users' # users) =>
                /\ req'[s].pc = "done" /\ req'[s].res = NoRes
                /\ req'[s].nextCalled = 1]_vars
    /\ [](\A s \in Slots :
            (req[s].mw = "authenticateToken" /\ req[s].pc = "done"
               /\ req[s].res # NoRes) =>
                /\ req[s].res.error \in AuthenticationErrors
                /\ req[s].nextCalled = 0)
    /\ []((req[1].pc = "done" /\ req[1].res # NoRes /\ req[2].pc = "idle")
            => users = users0)

\* a request whose save the store rejected was answered with an error, and
\* the store is as it was
C25_Witness ==
    /\ req[1].mw = "authenticateToken" /\ req[1].pc = "done"
    /\ req[1].writes = 1 /\ req[1].storeErr # ""
    /\ req[1].res.error = "INVALID_TOKEN"
    /\ req[2].pc = "idle"
    /\ users = users0 /\ users # {}

\* C26: an authenticateToken invocation calls the identity provider at most
\* once and accesses the store at most twice, by one lookup and at most one
\* create or update, also when the lookup of the local path fails.
C26_CollaboratorCalls ==
    \A s \in Slots :
        req[s].mw = "authenticateToken" =>
            /\ req[s].idpCalls <= 1
            /\ req[s].reads <= 1 /\ req[s].writes <= 1
            /\ req[s].reads + req[s].writes <= 2
            /\ req[s].writes = 1 => req[s].reads = 1

\* the lookup of the local path failed and the provider was asked once; a
\* later request looked its account up and saved it
C26_Witness ==
    /\ req[1].mw = "authenticateToken" /\ req[1].pc = "done"
    /\ req[1].decoded.ok /\ req[1].storeErr = "unavailable"
    /\ req[1].reads = 1 /\ req[1].idpCalls = 1
    /\ req[2].mw = "authenticateToken" /\ req[2].pc = "done"
    /\ req[2].idpCalls = 1 /\ req[2].reads = 1 /\ req[2].writes = 1

\* the uid that the credential of a request identifies
SubjectOf(r) == IF r.decoded.ok THEN r.decoded.uid ELSE r.claims.uid

\* the request is one of authenticateToken or of POST /auth/token
BehindLookup(r) == r.mw \in {"authenticateToken", "token"}

\* the subject of the request has an account, and it is deactivated
SubjectDeactivated(r) ==
    /\ AccountsOf(users, SubjectOf(r)) # {}
    /\ \A d \in AccountsOf(users, SubjectOf(r)) : ~d.isActive

\* next() was not called for the request and no access token was sent
KeptOut(r) == r.nextCalled = 0 /\ r.accessToken = "" /\ r.issued = NoDecoded

\* C27: when the lookup of an authenticateToken or POST /auth/token request
\* happens while the account of its subject is deactivated, with a local
\* access token or with an identity token, next() is never called for the
\* request and no access token is sent to it: the lookup finds no account,
\* the local path answers, the other paths try to create an account, and
\* the unique index on uid, since accounts are never removed, refuses it,
\* whether or not the account has been reactivated by then.
C27_DeactivationEnforced ==
    /\ [][\A s \in Slots :
            (/\ BehindLookup(req[s]) /\ req[s].pc \in {"locFind", "find"}
             /\ SubjectDeactivated(req[s])
             /\ req'[s] # req[s]) =>
                /\ KeptOut(req'[s])
                /\ \/ req'[s].pc = "done" /\ req'[s].res # NoRes
                      /\ req'[s].res.status # 200
                   \/ req[s].pc = "find" /\ req'[s].pc = "create"
                   \/ req[s].pc = "locFind" /\ req'[s].pc = "verify"]_vars
    /\ [][\A s \in Slots :
            (/\ BehindLookup(req[s]) /\ req[s].pc = "create"
             /\ AccountsOf(users, SubjectOf(req[s])) # {}
             /\ req'[s] # req[s]) =>
                /\ KeptOut(req'[s])
                /\ req'[s].pc = "done" /\ req'[s].res # NoRes
                /\ req'[s].res.status # 200]_vars
    /\ [][\A d \in users : \E e \in users' : e.uid = d.uid]_vars
    /\ [](\A s \in Slots :
            (req[s].mw = "authenticateToken" /\ req[s].pc = "verify"
               /\ req[s].decoded.ok) => ~VerifyIdToken(req[s].idpArg).ok)

\* the token exchange sent an access token for u1; the account of u1 was
\* deactivated after that, and the request that came with the token was
\* answered USER_NOT_FOUND
C27_Witness ==
    \E s \in Slots : \E t \in Slots :
        /\ req[t].mw = "token" /\ req[t].accessToken # ""
        /\ req[t].issued.uid = "u1"
        /\ req[s].mw = "authenticateToken"
        /\ req[s].token = <<req[t].accessToken>>
        /\ req[s].decoded.ok /\ req[s].idpCalls = 0
        /\ req[s].res = [status |-> 401, error |-> "USER_NOT_FOUND"]
        /\ KeptOut(req[s])
        /\ AccountsOf(users, "u1") # {}
        /\ \A d \in AccountsOf(users, "u1") : ~d.isActive

\* the toggle-status request of slot s was answered 200 for the account id
ToggledOk(s, id) ==
    /\ req[s].route = "admin" /\ req[s].pc = "done"
    /\ req[s].target.id = id
    /\ req[s].res = [status |-> 200, error |-> ""]

\* C28: when two toggle-status calls on the same account have both been
\* answered 200, and no other call on it has, the stored active flag of the
\* account is the one it had before the two calls, also when both calls
\* read the account before either saved it.
C28_TwoTogglesRestore ==
    \A id \in UserIds :
        (/\ \E d \in users0 : d.id = id
         /\ \A s \in Slots : ToggledOk(s, id)) =>
            Stored(users, id).isActive = Stored(users0, id).isActive

\* C29: no operation of the API changes the role or the uid of an account
\* that is in the store; an account that authenticateToken,
\* authenticateFirebaseUser, POST /auth/login or POST /auth/token adds to
\* the store has role 'user'; and when the store held no administrator at
\* the start, no request gets past requireAdmin.
C29_RoleNeverChanged ==
    /\ [][\A d \in users :
            \E e \in users' :
                e.id = d.id /\ e.role = d.role /\ e.uid = d.uid]_vars
    /\ [][\A e \in users' :
            (\A d \in users : d.id # e.id) => e.role = "user"]_vars
    /\ []((\A d \in users0 : d.role # "admin") =>
            /\ \A d \in users : d.role # "admin"
            /\ \A s \in Slots :
                 req[s].route = "admin" =>
                     /\ req[s].nextCalled <= 2
                     /\ ~AdminHandlerRuns(req[s]))

\* on a store without an administrator, an account was created, its display
\* name was saved by PATCH /users/update, and a request of its owner to the
\* admin router was answered 403 FORBIDDEN
C29_Witness ==
    \E s \in Slots : \E t \in Slots :
        /\ users0 = {}
        /\ req[s].route = "users" /\ req[s].res.status = 200
        /\ req[s].writes >= 1
        /\ \E d \in users : d.displayName = "N9" /\ d.role = "user"
        /\ req[t].route = "admin"
        /\ req[t].res = [status |-> 403, error |-> "FORBIDDEN"]

\* C30: after SIGTERM or SIGINT the process exits with code 0 only when the
\* server has closed, by the callback of server.close after it has closed
\* the database connection; the only other exit is code 1, when server.close
\* reports an error or when the 10 second timer fires; no listener exits
\* with code 0 while the server is closing.
C30_ShutdownOrder ==
    /\ proc.exit = "0" =>
         /\ proc.server = "closed"
         /\ proc.exitBy = "gracefulShutdown"
    /\ proc.exit = "1" => proc.exitBy \in {"closeError", "timer"}
    /\ proc.exit \in {"none", "0", "1"}

====
